---- MODULE Spec2Model ----
(***************************************************************************)
(* Classical text ciphers of src/app.py (Caesar, Rail Fence, Vigenere,     *)
(* Vernam, Playfair, Route, Affine, Hill, Columnar) and their              *)
(* modular-arithmetic helpers.                                             *)
(*                                                                         *)
(* A string is a sequence of Unicode code points (integers); ord and chr   *)
(* are therefore the identity on single characters, and chr is partial:    *)
(* it raises ValueError outside range(0x110000).                           *)
(*                                                                         *)
(* Every cipher is a pure function.  Each specification below draws the    *)
(* arguments of one cipher in its Init, and its actions apply encrypt and  *)
(* then decrypt to them, storing what the function returned or raised.     *)
(***************************************************************************)
EXTENDS Integers, Sequences, FiniteSets, TLC

VARIABLES
  pc,      \* "ready" -> "encrypted" -> "decrypted", or "done" / "failed"
  text,    \* the text handed to encrypt
  arg,     \* the cipher's parameters (a record)
  cipher,  \* what encrypt returned (or raised)
  plain,   \* what decrypt returned (or raised)
  ret      \* what an arithmetic helper returned

vars == <<pc, text, arg, cipher, plain, ret>>

Null == "null"

(***************************************************************************)
(* Bounds of the model.                                                    *)
(***************************************************************************)
MaxLen == 3        \* longest text of the substitution ciphers
MaxShift == 27     \* Caesar shifts range over -MaxShift..MaxShift
MaxRails == 4      \* Rail Fence rails range over 2..MaxRails
MaxRailLen == 5    \* longest Rail Fence text
MaxKeyLen == 2     \* longest Vigenere key
MaxPadLen == 3     \* longest Vernam key
MaxA == 27         \* a ranges over -MaxA..MaxA (mod_inverse, Affine)
MaxMod == 27       \* mod_inverse moduli range over 1..MaxMod
MaxExp == 5        \* manual_mod_pow exponents range over 0..MaxExp
MaxAffineLen == 2  \* longest Affine text
MaxRows == 3       \* Route rows range over 0..MaxRows
MaxCols == 3       \* Route cols range over 0..MaxCols
MaxRouteLen == 9   \* longest Route text
MaxHillLen == 2    \* longest Hill text
MaxHillKeyLen == 4 \* longest Hill key
MaxPlayfairLen == 3 \* longest Playfair text
MaxPlayfairKeyLen == 2 \* longest Playfair key
MaxColumnarLen == 4 \* longest Columnar text
MaxColumnarKeyLen == 3 \* longest Columnar key
MaxDirectLen == 2  \* longest text of a direct call
MaxDirectKeyLen == 1 \* longest key of a direct call (Hill: MaxHillKeyLen)
MinRails == -1     \* direct calls: rails range over MinRails..MaxRails
MinRows == -1      \* direct calls: rows range over MinRows..MaxRows
MinCols == -1      \* direct calls: cols range over MinCols..MaxCols

SeqsUpTo(S, n) == UNION {[1..k -> S] : k \in 0..n}

(***************************************************************************)
(* What a call produced: the returned string, or the exception raised.     *)
(***************************************************************************)
Returned(v) == [raised |-> "none", value |-> v]

Raised(e) == [raised |-> e, value |-> <<>>]

\* The same, with the number of characters of the input the function had
\* worked on when it returned or raised.
Outcome(e, v, n) == [raised |-> e, value |-> v, processed |-> n]

(***************************************************************************)
(* Python integer arithmetic: // floors, % takes the sign of the divisor.  *)
(***************************************************************************)
PyFloorDiv(x, y) == IF y > 0 THEN x \div y ELSE (-x) \div (-y)

PyMod(x, y) == x - y * PyFloorDiv(x, y)

(***************************************************************************)
(* Python str predicates on one code point, for the code points the model  *)
(* uses: ASCII, and the Latin-1 letters U+00C9 (E acute) and U+00E9        *)
(* (e acute), which str.isalpha accepts like every other Unicode letter.   *)
(***************************************************************************)
ord_A == 65

isupper(ch) == (65 <= ch /\ ch <= 90) \/ ch = 201

islower(ch) == (97 <= ch /\ ch <= 122) \/ ch = 233

isalpha(ch) == isupper(ch) \/ islower(ch)

upper(ch) == IF islower(ch) THEN ch - 32 ELSE ch

lower(ch) == IF isupper(ch) THEN ch + 32 ELSE ch

(***************************************************************************)
(* Caesar                                                                  *)
(***************************************************************************)
caesar_shift_char(ch, shift) ==
  IF 65 <= ch /\ ch <= 90
    THEN 65 + PyMod(PyMod(ch - 65 + shift, 26) + 26, 26)
  ELSE IF 97 <= ch /\ ch <= 122
    THEN 97 + PyMod(PyMod(ch - 97 + shift, 26) + 26, 26)
  ELSE ch

caesar_encrypt(t, shift) == [i \in 1..Len(t) |-> caesar_shift_char(t[i], shift)]

caesar_decrypt_same_shift(t, shift) == caesar_encrypt(t, shift)

caesar_decrypt(t, shift) == caesar_encrypt(t, -shift)

\* 'A', 'Z', 'z', ' ', U+00E9
CaesarChars == {65, 90, 122, 32, 233}

InitCaesar ==
  /\ pc = "ready"
  /\ text \in SeqsUpTo(CaesarChars, MaxLen)
  /\ arg \in [shift : -MaxShift..MaxShift]
  /\ cipher = Null /\ plain = Null /\ ret = Null

CaesarEncrypt ==
  /\ pc = "ready"
  /\ cipher' = caesar_encrypt(text, arg.shift)
  /\ pc' = "encrypted"
  /\ UNCHANGED <<text, arg, plain, ret>>

CaesarDecrypt ==
  /\ pc = "encrypted"
  /\ plain' = caesar_decrypt(cipher, arg.shift)
  /\ pc' = "decrypted"
  /\ UNCHANGED <<text, arg, cipher, ret>>

NextCaesar == CaesarEncrypt \/ CaesarDecrypt

SpecCaesar == InitCaesar /\ [][NextCaesar]_vars

\* C1: for every text and every integer shift (negative, zero, positive, of
\* magnitude above 26), caesar_decrypt(caesar_encrypt(text, shift), shift)
\* is the text again.
C1_CaesarRoundTrip == pc = "decrypted" => plain = text

\* A round trip with a shift below -26 whose ciphertext differs from the text.
C1_Witness ==
  /\ pc = "decrypted"
  /\ arg.shift < -26
  /\ cipher # text
  /\ plain = text

(***************************************************************************)
(* Rail Fence                                                              *)
(***************************************************************************)
\* The end of the loop body without the turn at the bottom rail
zigzag_step_top_turn_only(row, direction, rails) ==
  LET d == IF row = 0 THEN 1 ELSE direction
  IN  [row |-> row + d, direction |-> d]

\* The end of each zigzag loop body: turn at the top and bottom rail, move.
zigzag_step(row, direction, rails) ==
  LET d == IF row = 0 THEN 1
           ELSE IF row = rails - 1 THEN -1
           ELSE direction
  IN  [row |-> row + d, direction |-> d]

zigzag_start == [row |-> 0, direction |-> 1]

\* for ch in text: lines[row].append(ch); ...   (lines is indexed 0..rails-1;
\* an index outside it raises IndexError)
RECURSIVE rail_fence_fill(_, _, _, _, _)
rail_fence_fill(t, rails, i, st, lines) ==
  IF i > Len(t) THEN Returned(lines)
  ELSE IF st.row \notin 0..(rails - 1) THEN Raised("IndexError")
  ELSE rail_fence_fill(t, rails, i + 1,
                       zigzag_step(st.row, st.direction, rails),
                       [lines EXCEPT ![st.row] = Append(@, t[i])])

\* "".join("".join(line) for line in lines), from rail r on
RECURSIVE join_lines(_, _, _)
join_lines(lines, r, rails) ==
  IF r >= rails THEN <<>> ELSE lines[r] \o join_lines(lines, r + 1, rails)

rail_fence_encrypt(t, rails) ==
  IF rails < 2 \/ Len(t) = 0 THEN Returned(t)
  ELSE LET filled == rail_fence_fill(t, rails, 1, zigzag_start,
                                     [r \in 0..(rails - 1) |-> <<>>])
       IN  IF filled.raised # "none" THEN filled
           ELSE Returned(join_lines(filled.value, 0, rails))

\* for _ in range(length): counts[row] += 1; ...
RECURSIVE rail_fence_counts(_, _, _, _, _)
rail_fence_counts(length, rails, i, st, counts) ==
  IF i > length THEN Returned(counts)
  ELSE IF st.row \notin 0..(rails - 1) THEN Raised("IndexError")
  ELSE rail_fence_counts(length, rails, i + 1,
                         zigzag_step(st.row, st.direction, rails),
                         [counts EXCEPT ![st.row] = @ + 1])

\* for r in range(rails): part = list(cipher[index : index + counts[r]]); ...
\* (a Python slice is clipped to the string, it never raises)
PySlice(s, from, to) ==
  LET lo == IF from > Len(s) THEN Len(s) ELSE from
      hi == IF to > Len(s) THEN Len(s) ELSE to
  IN  IF hi <= lo THEN <<>> ELSE SubSeq(s, lo + 1, hi)

RECURSIVE rail_fence_slices(_, _, _, _, _, _)
rail_fence_slices(c, counts, rails, r, index, rails_arr) ==
  IF r >= rails THEN rails_arr
  ELSE rail_fence_slices(c, counts, rails, r + 1, index + counts[r],
         [rails_arr EXCEPT ![r] = PySlice(c, index, index + counts[r])])

\* for _ in range(length): result.append(rails_arr[row].pop(0)); ...
RECURSIVE rail_fence_read(_, _, _, _, _, _)
rail_fence_read(length, rails, i, st, rails_arr, result) ==
  IF i > length THEN Returned(result)
  ELSE IF st.row \notin 0..(rails - 1) THEN Raised("IndexError")
  ELSE IF rails_arr[st.row] = <<>> THEN Raised("IndexError")
  ELSE rail_fence_read(length, rails, i + 1,
                       zigzag_step(st.row, st.direction, rails),
                       [rails_arr EXCEPT ![st.row] = Tail(@)],
                       Append(result, Head(rails_arr[st.row])))

rail_fence_decrypt_zigzag(c, rails) ==
  LET length == Len(c)
      counted == rail_fence_counts(length, rails, 1, zigzag_start,
                                   [r \in 0..(rails - 1) |-> 0])
  IN  IF counted.raised # "none" THEN counted
      ELSE rail_fence_read(length, rails, 1, zigzag_start,
             rail_fence_slices(c, counted.value, rails, 0, 0,
                               [r \in 0..(rails - 1) |-> <<>>]),
             <<>>)

rail_fence_decrypt_two_rails_skipped(c, rails) ==
  IF rails <= 2 \/ Len(c) = 0 THEN Returned(c)
  ELSE rail_fence_decrypt_zigzag(c, rails)

rail_fence_decrypt(c, rails) ==
  IF rails < 2 \/ Len(c) = 0 THEN Returned(c)
  ELSE rail_fence_decrypt_zigzag(c, rails)

\* 'a', 'b', '-'
RailChars == {97, 98, 45}

InitRailFence ==
  /\ pc = "ready"
  /\ text \in SeqsUpTo(RailChars, MaxRailLen)
  /\ arg \in [rails : 2..MaxRails]
  /\ cipher = Null /\ plain = Null /\ ret = Null

RailFenceEncrypt ==
  /\ pc = "ready"
  /\ cipher' = rail_fence_encrypt(text, arg.rails)
  /\ pc' = "encrypted"
  /\ UNCHANGED <<text, arg, plain, ret>>

RailFenceDecrypt ==
  /\ pc = "encrypted"
  /\ cipher.raised = "none"
  /\ plain' = rail_fence_decrypt(cipher.value, arg.rails)
  /\ pc' = "decrypted"
  /\ UNCHANGED <<text, arg, cipher, ret>>

NextRailFence == RailFenceEncrypt \/ RailFenceDecrypt

SpecRailFence == InitRailFence /\ [][NextRailFence]_vars

\* C5: for every rails >= 2 (also rails greater than the text length) and
\* every text, rail_fence_encrypt returns and
\* rail_fence_decrypt(rail_fence_encrypt(text, rails), rails) returns the text.
C5_RailFenceRoundTrip ==
  /\ pc = "encrypted" => cipher.raised = "none"
  /\ pc = "decrypted" => plain = Returned(text)

\* A round trip over a zigzag that bounced off the bottom rail and permuted
\* the text.
C5_Witness ==
  /\ pc = "decrypted"
  /\ Len(text) > arg.rails
  /\ cipher.value # text
  /\ plain = Returned(text)

\* The same with more rails than characters.
C5_WitnessManyRails ==
  /\ pc = "decrypted"
  /\ Len(text) > 0
  /\ arg.rails > Len(text)
  /\ plain = Returned(text)

(***************************************************************************)
(* Vigenere                                                                *)
(***************************************************************************)
\* "".join(ch.upper() for ch in key if ch.isalpha())
RECURSIVE upper_letters(_)
upper_letters(s) ==
  IF s = <<>> THEN <<>>
  ELSE IF isalpha(Head(s)) THEN <<upper(Head(s))>> \o upper_letters(Tail(s))
  ELSE upper_letters(Tail(s))

\* vigenere_prepare_key without the repetition of the key
vigenere_prepare_key_not_repeated(key, length) ==
  LET letters == upper_letters(key)
      key_clean == IF letters = <<>> THEN <<ord_A>> ELSE letters
  IN  [i \in 1..length |->
         IF i <= Len(key_clean) THEN key_clean[i] ELSE ord_A]

vigenere_prepare_key(key, length) ==
  LET letters == upper_letters(key)
      key_clean == IF letters = <<>> THEN <<ord_A>> ELSE letters
  IN  [i \in 1..length |-> key_clean[((i - 1) % Len(key_clean)) + 1]]

\* The loop of vigenere_encrypt from text[i] on; key_idx counts from 0.
RECURSIVE vigenere_encrypt_loop(_, _, _, _, _)
vigenere_encrypt_loop(t, key_prepared, i, key_idx, result) ==
  IF i > Len(t) THEN result
  ELSE LET ch == t[i] IN
    IF isalpha(ch)
      THEN LET is_upper == isupper(ch)
               ch_code == upper(ch)
               key_code == upper(key_prepared[key_idx + 1])
               shift == key_code - ord_A
               new_code == PyMod(ch_code - ord_A + shift, 26) + ord_A
           IN  vigenere_encrypt_loop(t, key_prepared, i + 1, key_idx + 1,
                 Append(result, IF is_upper THEN new_code ELSE lower(new_code)))
      ELSE vigenere_encrypt_loop(t, key_prepared, i + 1, key_idx,
                                 Append(result, ch))

vigenere_encrypt(t, key) ==
  IF key = <<>> THEN t
  ELSE vigenere_encrypt_loop(t, vigenere_prepare_key(key, Len(t)), 1, 0, <<>>)

RECURSIVE vigenere_decrypt_loop(_, _, _, _, _)
vigenere_decrypt_loop(c, key_prepared, i, key_idx, result) ==
  IF i > Len(c) THEN result
  ELSE LET ch == c[i] IN
    IF isalpha(ch)
      THEN LET is_upper == isupper(ch)
               ch_code == upper(ch)
               key_code == upper(key_prepared[key_idx + 1])
               shift == key_code - ord_A
               new_code == PyMod(ch_code - ord_A - shift + 26, 26) + ord_A
           IN  vigenere_decrypt_loop(c, key_prepared, i + 1, key_idx + 1,
                 Append(result, IF is_upper THEN new_code ELSE lower(new_code)))
      ELSE vigenere_decrypt_loop(c, key_prepared, i + 1, key_idx,
                                 Append(result, ch))

vigenere_decrypt(c, key) ==
  IF key = <<>> THEN c
  ELSE vigenere_decrypt_loop(c, vigenere_prepare_key(key, Len(c)), 1, 0, <<>>)

\* 'A', 'z', ' ', U+00E9
VigenereChars == {65, 122, 32, 233}

\* 'B', 'z', '1'
VigenereKeyChars == {66, 122, 49}

InitVigenere ==
  /\ pc = "ready"
  /\ text \in SeqsUpTo(VigenereChars, MaxLen)
  /\ arg \in [key : SeqsUpTo(VigenereKeyChars, MaxKeyLen)]
  /\ cipher = Null /\ plain = Null /\ ret = Null

VigenereEncrypt ==
  /\ pc = "ready"
  /\ cipher' = vigenere_encrypt(text, arg.key)
  /\ pc' = "encrypted"
  /\ UNCHANGED <<text, arg, plain, ret>>

VigenereDecrypt ==
  /\ pc = "encrypted"
  /\ plain' = vigenere_decrypt(cipher, arg.key)
  /\ pc' = "decrypted"
  /\ UNCHANGED <<text, arg, cipher, ret>>

NextVigenere == VigenereEncrypt \/ VigenereDecrypt

SpecVigenere == InitVigenere /\ [][NextVigenere]_vars

\* C2: for every text and every non-empty key,
\* vigenere_decrypt(vigenere_encrypt(text, key), key) is the text, and in
\* the ciphertext every non-letter sits unchanged at its index and every
\* letter keeps the case of the plaintext letter at that index.
C2_VigenereRoundTrip ==
  arg.key # <<>> =>
    /\ pc \in {"encrypted", "decrypted"} =>
         /\ Len(cipher) = Len(text)
         /\ \A i \in 1..Len(text) :
              /\ ~isalpha(text[i]) => cipher[i] = text[i]
              /\ isalpha(text[i]) =>
                   /\ isalpha(cipher[i])
                   /\ isupper(cipher[i]) = isupper(text[i])
    /\ pc = "decrypted" => plain = text

(***************************************************************************)
(* Vernam                                                                  *)
(***************************************************************************)
\* The largest code point chr accepts (0x10FFFF).
MaxCodePoint == 1114111

\* Python's ^ on non-negative integers.
RECURSIVE BitXor(_, _)
BitXor(x, y) ==
  IF x = 0 THEN y
  ELSE IF y = 0 THEN x
  ELSE (((x % 2) + (y % 2)) % 2) + 2 * BitXor(x \div 2, y \div 2)

\* for i, ch in enumerate(text): chr(ord(ch) ^ ord(key_extended[i]))
RECURSIVE vernam_loop(_, _, _, _)
vernam_loop(t, key_extended, i, result) ==
  IF i > Len(t) THEN Returned(result)
  ELSE LET code == BitXor(t[i], key_extended[i]) IN
    IF code > MaxCodePoint THEN Raised("ValueError")
    ELSE vernam_loop(t, key_extended, i + 1, Append(result, code))

vernam_encrypt(t, key) ==
  IF key = <<>> THEN Returned(t)
  ELSE vernam_loop(t, [i \in 1..Len(t) |-> key[((i - 1) % Len(key)) + 1]],
                   1, <<>>)

vernam_decrypt(c, key) == vernam_encrypt(c, key)

\* 'A', 'a', U+100000
VernamChars == {65, 97, 1048576}

\* ' ', 'K', U+1F600
VernamKeyChars == {32, 75, 128512}

InitVernam ==
  /\ pc = "ready"
  /\ text \in SeqsUpTo(VernamChars, MaxLen)
  /\ arg \in [key : SeqsUpTo(VernamKeyChars, MaxPadLen)]
  /\ cipher = Null /\ plain = Null /\ ret = Null

VernamEncrypt ==
  /\ pc = "ready"
  /\ cipher' = vernam_encrypt(text, arg.key)
  /\ pc' = "encrypted"
  /\ UNCHANGED <<text, arg, plain, ret>>

VernamDecrypt ==
  /\ pc = "encrypted"
  /\ cipher.raised = "none"
  /\ plain' = vernam_decrypt(cipher.value, arg.key)
  /\ pc' = "decrypted"
  /\ UNCHANGED <<text, arg, cipher, ret>>

NextVernam == VernamEncrypt \/ VernamDecrypt

SpecVernam == InitVernam /\ [][NextVernam]_vars

\* C4: for every text and every key of length >= 1 (shorter than, equal to
\* or longer than the text), vernam_encrypt returns and
\* vernam_decrypt(vernam_encrypt(text, key), key) returns the text.
C4_VernamRoundTrip ==
  arg.key # <<>> =>
    /\ pc = "encrypted" => cipher.raised = "none"
    /\ pc = "decrypted" => plain = Returned(text)

(***************************************************************************)
(* Modular arithmetic                                                      *)
(***************************************************************************)
RECURSIVE gcd_extended(_, _)
gcd_extended(a, b) ==
  IF a = 0 THEN <<b, 0, 1>>
  ELSE LET r == gcd_extended(PyMod(b, a), a)
           gcd == r[1]
           x1 == r[2]
           y1 == r[3]
       IN  <<gcd, y1 - PyFloorDiv(b, a) * x1, x1>>

\* Optional[int]
None == [is_none |-> TRUE, value |-> 0]

Some(v) == [is_none |-> FALSE, value |-> v]

mod_inverse(a, m) ==
  LET r == gcd_extended(a, m)
      gcd == r[1]
      x == r[2]
  IN  IF gcd # 1 THEN None
      ELSE Some(PyMod(PyMod(x, m) + m, m))

InitModInverse ==
  /\ pc = "ready"
  /\ text = <<>>
  /\ arg \in [a : -MaxA..MaxA, m : 1..MaxMod]
  /\ cipher = Null /\ plain = Null /\ ret = Null

ModInverse ==
  /\ pc = "ready"
  /\ ret' = mod_inverse(arg.a, arg.m)
  /\ pc' = "inverse"
  /\ UNCHANGED <<text, arg, cipher, plain>>

\* gcd_extended(a, b) for a second argument of either sign
GcdExtended ==
  /\ pc = "ready"
  /\ \E b \in -MaxMod..MaxMod :
       ret' = [b |-> b, value |-> gcd_extended(arg.a, b)]
  /\ pc' = "gcd"
  /\ UNCHANGED <<text, arg, cipher, plain>>

\* while exp > 0: ... (exp >> 1 halves, rounding down)
RECURSIVE manual_mod_pow_loop(_, _, _, _)
manual_mod_pow_loop(result, base, exp, mod) ==
  IF exp > 0
    THEN manual_mod_pow_loop(
           IF PyMod(exp, 2) = 1 THEN PyMod(result * base, mod) ELSE result,
           PyMod(base * base, mod), PyFloorDiv(exp, 2), mod)
  ELSE result

manual_mod_pow(base, exp, mod) ==
  manual_mod_pow_loop(1, PyMod(base, mod), exp, mod)

\* manual_mod_pow(a, exp, m) for an exponent exp >= 0
ManualModPow ==
  /\ pc = "ready"
  /\ \E exp \in 0..MaxExp :
       ret' = [exp |-> exp, value |-> manual_mod_pow(arg.a, exp, arg.m)]
  /\ pc' = "power"
  /\ UNCHANGED <<text, arg, cipher, plain>>

NextModInverse == ModInverse \/ GcdExtended \/ ManualModPow

SpecModInverse == InitModInverse /\ [][NextModInverse]_vars

\* The arithmetic the claims speak of, defined without the code.
Divides(d, n) == n % d = 0

MathGcd(a, m) ==
  CHOOSE d \in 1..m :
    /\ Divides(d, a) /\ Divides(d, m)
    /\ \A e \in 1..m : (Divides(e, a) /\ Divides(e, m)) => e <= d

IsInverse(v, a, m) == (a * v) % m = 1 % m

\* C8: for every integer a and modulus m, mod_inverse(a, m) is None exactly
\* when gcd(a, m) # 1, and otherwise the unique inv in [0, m) with
\* a * inv = 1 (mod m); mod_inverse(3, 26) = 9 and mod_inverse(2, 26) is None.
C8_ModInverse ==
  pc = "inverse" =>
    /\ ret.is_none <=> MathGcd(arg.a, arg.m) # 1
    /\ ~ret.is_none =>
         /\ ret.value \in 0..(arg.m - 1)
         /\ IsInverse(ret.value, arg.a, arg.m)
         /\ \A v \in 0..(arg.m - 1) : IsInverse(v, arg.a, arg.m) => v = ret.value
    /\ (arg.a = 3 /\ arg.m = 26) => ret = Some(9)
    /\ (arg.a = 2 /\ arg.m = 26) => ret = None

\* base^exp, with base^0 = 1 for every base
Power(base, exp) == IF exp = 0 THEN 1 ELSE base ^ exp

\* C17: for every base, every exp >= 0 and every mod >= 1,
\* manual_mod_pow(base, exp, mod) is base^exp mod mod, a value in [0, mod).
C17_ModPow ==
  pc = "power" =>
    /\ ret.value = PyMod(Power(arg.a, ret.exp), arg.m)
    /\ 0 <= ret.value /\ ret.value < arg.m

Abs(n) == IF n < 0 THEN -n ELSE n

\* g is the greatest common divisor of a and b (0 for a = b = 0).
IsGcd(g, a, b) ==
  IF a = 0 /\ b = 0 THEN g = 0
  ELSE /\ g >= 1 /\ Divides(g, a) /\ Divides(g, b)
       /\ \A e \in 1..(Abs(a) + Abs(b)) :
            (Divides(e, a) /\ Divides(e, b)) => e <= g

\* C18: for all integers a and b, gcd_extended(a, b) returns (g, x, y) with
\* g = a * x + b * y and g the greatest common divisor of a and b; for
\* a = 0 it returns (b, 0, 1).
C18_GcdExtended ==
  pc = "gcd" =>
    LET g == ret.value[1]
        x == ret.value[2]
        y == ret.value[3]
    IN  /\ g = arg.a * x + ret.b * y
        /\ IsGcd(g, arg.a, ret.b)
        /\ arg.a = 0 => ret.value = <<ret.b, 0, 1>>

(***************************************************************************)
(* Affine                                                                  *)
(***************************************************************************)
affine_encrypt_char(ch, a, b) ==
  IF isalpha(ch)
    THEN LET is_upper == isupper(ch)
             ch_code == upper(ch) - ord_A
             encrypted_code == PyMod(a * ch_code + b, 26)
             encrypted_char == encrypted_code + ord_A
         IN  IF is_upper THEN encrypted_char ELSE lower(encrypted_char)
    ELSE ch

affine_encrypt(t, a, b) ==
  IF gcd_extended(a, 26)[1] # 1 THEN Outcome("ValueError", <<>>, 0)
  ELSE Outcome("none",
               [i \in 1..Len(t) |-> affine_encrypt_char(t[i], a, b)],
               Len(t))

affine_decrypt_char(ch, a_inv, b) ==
  IF isalpha(ch)
    THEN LET is_upper == isupper(ch)
             ch_code == upper(ch) - ord_A
             decrypted_code == PyMod(a_inv * (ch_code - b + 26), 26)
             decrypted_char == decrypted_code + ord_A
         IN  IF is_upper THEN decrypted_char ELSE lower(decrypted_char)
    ELSE ch

affine_decrypt(c, a, b) ==
  LET a_inv == mod_inverse(a, 26)
  IN  IF a_inv.is_none THEN Outcome("ValueError", <<>>, 0)
      ELSE Outcome("none",
                   [i \in 1..Len(c) |-> affine_decrypt_char(c[i], a_inv.value, b)],
                   Len(c))

\* 'H', 'z', '!', U+00E9
AffineChars == {72, 122, 33, 233}

AffineBs == {-1, 0, 8, 25, 30}

InitAffine ==
  /\ pc = "ready"
  /\ text \in SeqsUpTo(AffineChars, MaxAffineLen)
  /\ arg \in [a : -MaxA..MaxA, b : AffineBs]
  /\ cipher = Null /\ plain = Null /\ ret = Null

AffineEncrypt ==
  /\ pc = "ready"
  /\ cipher' = affine_encrypt(text, arg.a, arg.b)
  /\ pc' = "encrypted"
  /\ UNCHANGED <<text, arg, plain, ret>>

AffineDecrypt ==
  /\ pc = "encrypted"
  /\ cipher.raised = "none"
  /\ plain' = affine_decrypt(cipher.value, arg.a, arg.b)
  /\ pc' = "decrypted"
  /\ UNCHANGED <<text, arg, cipher, ret>>

\* decrypt called on the text itself, as the form handler does in decrypt mode
AffineDecryptText ==
  /\ pc = "ready"
  /\ plain' = affine_decrypt(text, arg.a, arg.b)
  /\ pc' = "decrypted_text"
  /\ UNCHANGED <<text, arg, cipher, ret>>

NextAffine == AffineEncrypt \/ AffineDecrypt \/ AffineDecryptText

SpecAffine == InitAffine /\ [][NextAffine]_vars

\* C3: for every text and every (a, b) with gcd(a, 26) = 1, affine_encrypt
\* returns and affine_decrypt(affine_encrypt(text, a, b), a, b) returns the
\* text.
C3_AffineRoundTrip ==
  MathGcd(arg.a, 26) = 1 =>
    /\ pc = "encrypted" => cipher.raised = "none"
    /\ pc = "decrypted" => plain.raised = "none" /\ plain.value = text

\* C9: for every integer a, every b and text, affine_encrypt raises the
\* invalid-key error exactly when gcd(a, 26) # 1, affine_decrypt raises it
\* exactly when a has no inverse mod 26 (the same values of a), and the
\* error is raised before any character is transformed, with no output.
C9_AffineInvalidKey ==
  /\ pc = "encrypted" =>
       /\ cipher.raised = "ValueError" <=> MathGcd(arg.a, 26) # 1
       /\ cipher.raised # "none" => cipher.processed = 0 /\ cipher.value = <<>>
  /\ pc = "decrypted_text" =>
       /\ plain.raised = "ValueError" <=>
            ~(\E v \in 0..25 : IsInverse(v, arg.a, 26))
       /\ plain.raised # "none" => plain.processed = 0 /\ plain.value = <<>>

(***************************************************************************)
(* Route (spiral)                                                          *)
(***************************************************************************)
pad_X == 88

\* str.ljust(width, fillchar)
ljust(s, width, fillchar) ==
  IF Len(s) >= width THEN s
  ELSE s \o [i \in 1..(width - Len(s)) |-> fillchar]

\* str.rstrip(chars), for one character
RECURSIVE rstrip(_, _)
rstrip(s, ch) ==
  IF s # <<>> /\ s[Len(s)] = ch THEN rstrip(SubSeq(s, 1, Len(s) - 1), ch)
  ELSE s

\* A list index: i in range(n), or counted from the end when negative;
\* anything else raises IndexError.
PyIndexOk(i, n) == -n <= i /\ i < n

PyIndex(i, n) == IF i < 0 THEN i + n ELSE i

\* sag, asagi, sol, yukari
directions == <<<<0, 1>>, <<1, 0>>, <<0, -1>>, <<-1, 0>>>>

route_next_cell_ignoring_visited(row, col, dir_idx, rows, cols, visited) ==
  LET next_row == row + directions[dir_idx + 1][1]
      next_col == col + directions[dir_idx + 1][2]
      turn == \/ next_row < 0 \/ next_row >= rows
              \/ next_col < 0 \/ next_col >= cols
      d == IF turn THEN (dir_idx + 1) % 4 ELSE dir_idx
  IN  [row |-> row + directions[d + 1][1],
       col |-> col + directions[d + 1][2],
       dir_idx |-> d]

\* The next position of the spiral: turn when the cell ahead is outside the
\* grid or visited.
route_next_cell(row, col, dir_idx, rows, cols, visited) ==
  LET next_row == row + directions[dir_idx + 1][1]
      next_col == col + directions[dir_idx + 1][2]
      turn == \/ next_row < 0 \/ next_row >= rows
              \/ next_col < 0 \/ next_col >= cols
              \/ <<next_row, next_col>> \in visited
      d == IF turn THEN (dir_idx + 1) % 4 ELSE dir_idx
  IN  [row |-> row + directions[d + 1][1],
       col |-> col + directions[d + 1][2],
       dir_idx |-> d]

\* for _ in range(grid_size): result.append(grid[row][col]); ...
\* (n iterations left; text_padded is the grid, row-major)
RECURSIVE route_encrypt_spiral(_, _, _, _, _, _, _)
route_encrypt_spiral(text_padded, rows, cols, n, pos, visited, result) ==
  IF n = 0 THEN Returned(result)
  ELSE IF ~PyIndexOk(pos.row, rows) \/ ~PyIndexOk(pos.col, cols)
    THEN Raised("IndexError")
  ELSE LET r == PyIndex(pos.row, rows)
           c == PyIndex(pos.col, cols)
           seen == visited \cup {<<r, c>>}
       IN  route_encrypt_spiral(text_padded, rows, cols, n - 1,
             route_next_cell(pos.row, pos.col, pos.dir_idx, rows, cols, seen),
             seen, Append(result, text_padded[r * cols + c + 1]))

\* The spiral begun one cell to the right.
spiral_start_second_cell == [row |-> 0, col |-> 1, dir_idx |-> 0]

spiral_start == [row |-> 0, col |-> 0, dir_idx |-> 0]

route_encrypt(t, rows, cols) ==
  IF rows < 1 \/ cols < 1 THEN Returned(t)
  ELSE route_encrypt_spiral(ljust(t, rows * cols, pad_X), rows, cols,
                            rows * cols, spiral_start, {}, <<>>)

\* for i, ch in enumerate(cipher): grid[row][col] = ch; ...
\* (a cell of grid is <<>> for None, <<ch>> for a character)
RECURSIVE route_decrypt_spiral(_, _, _, _, _, _, _)
route_decrypt_spiral(c, rows, cols, i, pos, visited, grid) ==
  IF i > Len(c) THEN Returned(grid)
  ELSE IF ~PyIndexOk(pos.row, rows) \/ ~PyIndexOk(pos.col, cols)
    THEN Raised("IndexError")
  ELSE LET r == PyIndex(pos.row, rows)
           k == PyIndex(pos.col, cols)
           seen == visited \cup {<<r, k>>}
           placed == [grid EXCEPT ![<<r, k>>] = <<c[i]>>]
       IN  route_decrypt_spiral(c, rows, cols, i + 1,
             IF i < Len(c)
               THEN route_next_cell(pos.row, pos.col, pos.dir_idx,
                                    rows, cols, seen)
               ELSE pos,
             seen, placed)

\* for i in range(rows): for j in range(cols): if grid[i][j]: ...
\* (from cell number n, row-major)
RECURSIVE route_read_rows(_, _, _, _)
route_read_rows(grid, rows, cols, n) ==
  IF n >= rows * cols THEN <<>>
  ELSE grid[<<n \div cols, n % cols>>] \o route_read_rows(grid, rows, cols, n + 1)

\* route_decrypt without the test of rows
route_decrypt_rows_unchecked(cipher_text, rows, cols) ==
  IF cols < 1 THEN Returned(cipher_text)
  ELSE Returned(rstrip(PySlice(ljust(cipher_text, rows * cols, pad_X),
                               0, rows * cols), pad_X))

route_decrypt(cipher_text, rows, cols) ==
  IF rows < 1 \/ cols < 1 THEN Returned(cipher_text)
  ELSE LET grid_size == rows * cols
           c == IF Len(cipher_text) < grid_size
                  THEN ljust(cipher_text, grid_size, pad_X)
                ELSE IF Len(cipher_text) > grid_size
                  THEN SubSeq(cipher_text, 1, grid_size)
                ELSE cipher_text
           filled == route_decrypt_spiral(c, rows, cols, 1, spiral_start, {},
                       [p \in (0..(rows - 1)) \X (0..(cols - 1)) |-> <<>>])
       IN  IF filled.raised # "none" THEN filled
           ELSE Returned(rstrip(route_read_rows(filled.value, rows, cols, 0),
                                pad_X))

\* 'X', 'b'
RouteChars == {88, 98}

Min(x, y) == IF x < y THEN x ELSE y

\* "abc...": a text that gives every cell of the grid a letter of its own
route_labels(rows, cols) == [k \in 1..(rows * cols) |-> 96 + k]

InitRoute ==
  /\ pc = "ready"
  /\ arg \in [rows : 0..MaxRows, cols : 0..MaxCols]
  /\ text \in SeqsUpTo(RouteChars, Min(arg.rows * arg.cols + 1, MaxRouteLen))
               \cup {route_labels(arg.rows, arg.cols)}
  /\ cipher = Null /\ plain = Null /\ ret = Null

RouteEncrypt ==
  /\ pc = "ready"
  /\ cipher' = route_encrypt(text, arg.rows, arg.cols)
  /\ pc' = "encrypted"
  /\ UNCHANGED <<text, arg, plain, ret>>

RouteDecrypt ==
  /\ pc = "encrypted"
  /\ cipher.raised = "none"
  /\ plain' = route_decrypt(cipher.value, arg.rows, arg.cols)
  /\ pc' = "decrypted"
  /\ UNCHANGED <<text, arg, cipher, ret>>

NextRoute == RouteEncrypt \/ RouteDecrypt

SpecRoute == InitRoute /\ [][NextRoute]_vars

\* C6: for every rows >= 1, cols >= 1 and every text with
\* len(text) <= rows * cols, route_encrypt returns and
\* route_decrypt(route_encrypt(text, rows, cols), rows, cols) returns the
\* text padded with 'X' to rows * cols characters and then stripped of its
\* trailing 'X' characters.
C6_RouteRoundTrip ==
  (arg.rows >= 1 /\ arg.cols >= 1 /\ Len(text) <= arg.rows * arg.cols) =>
    /\ pc = "encrypted" => cipher.raised = "none"
    /\ pc = "decrypted" =>
         plain = Returned(rstrip(ljust(text, arg.rows * arg.cols, pad_X), pad_X))

\* A round trip through a 3 x 3 grid (the spiral turns into the centre on a
\* visited cell) whose ciphertext is not the padded text and whose text ends
\* in a real 'X', which the strip removes.
C6_Witness ==
  /\ pc = "decrypted"
  /\ arg.rows = 3 /\ arg.cols = 3
  /\ Len(text) = 9 /\ text[9] = pad_X /\ text[5] # pad_X
  /\ cipher.value # text
  /\ plain.raised = "none" /\ Len(plain.value) < 9

\* The characters of the grid route_encrypt builds, row by row.
GridContents == PySlice(ljust(text, arg.rows * arg.cols, pad_X),
                        0, arg.rows * arg.cols)

Count(s, ch) == Cardinality({i \in 1..Len(s) : s[i] = ch})

\* C16: for every rows >= 1 and cols >= 1 (also one row, one column) the
\* spiral of route_encrypt starts at cell (0, 0), visits every one of the
\* rows * cols cells exactly once, and emits exactly rows * cols characters,
\* a permutation of the contents of the grid.  (For the text that labels
\* every cell with its own letter the output is the order of the visit.)
C16_SpiralCoversGrid ==
  (pc = "encrypted" /\ arg.rows >= 1 /\ arg.cols >= 1) =>
    /\ cipher.raised = "none"
    /\ Len(cipher.value) = arg.rows * arg.cols
    /\ cipher.value[1] = GridContents[1]
    /\ \A i \in 1..Len(GridContents) :
         Count(cipher.value, GridContents[i]) = Count(GridContents, GridContents[i])
    /\ text = route_labels(arg.rows, arg.cols) =>
         \A i, j \in 1..Len(cipher.value) :
           cipher.value[i] = cipher.value[j] => i = j

\* The spiral over the labelled 3 x 3 grid: "abcfihgde".
C16_Witness ==
  /\ pc = "encrypted"
  /\ arg.rows = 3 /\ arg.cols = 3
  /\ text = route_labels(3, 3)
  /\ cipher = Returned(<<97, 98, 99, 102, 105, 104, 103, 100, 101>>)

\* The same over one row and over one column of three cells.
C16_WitnessOneRow ==
  /\ pc = "encrypted"
  /\ arg.rows = 1 /\ arg.cols = 3
  /\ text = route_labels(1, 3)
  /\ cipher = Returned(text)

C16_WitnessOneColumn ==
  /\ pc = "encrypted"
  /\ arg.rows = 3 /\ arg.cols = 1
  /\ text = route_labels(3, 1)
  /\ cipher = Returned(text)

(***************************************************************************)
(* Hill                                                                    *)
(***************************************************************************)
hill_create_matrix(key, size) ==
  LET letters == upper_letters(key)
      key_clean == IF Len(letters) < size * size
                     THEN ljust(letters, size * size, ord_A)
                   ELSE IF Len(letters) > size * size
                     THEN SubSeq(letters, 1, size * size)
                   ELSE letters
  IN  [i \in 1..size |->
        [j \in 1..size |-> key_clean[(i - 1) * size + (j - 1) + 1] - ord_A]]

hill_matrix_determinant(matrix) ==
  IF Len(matrix) = 2
    THEN PyMod(matrix[1][1] * matrix[2][2] - matrix[1][2] * matrix[2][1], 26)
  ELSE 0

hill_matrix_inverse(matrix) ==
  LET det == hill_matrix_determinant(matrix)
      det_inv == mod_inverse(det, 26)
  IN  IF det_inv.is_none THEN Raised("ValueError")
      ELSE LET a == matrix[1][1]
               b == matrix[1][2]
               c == matrix[2][1]
               d == matrix[2][2]
               di == det_inv.value
           IN  Returned(<< <<PyMod(di * d, 26), PyMod((-di) * b, 26)>>,
                           <<PyMod((-di) * c, 26), PyMod(di * a, 26)>> >>)

\* sum(row[i] * vector[i] for i in range(len(vector))), from index i on
RECURSIVE hill_row_sum(_, _, _)
hill_row_sum(row, vector, i) ==
  IF i > Len(vector) THEN 0
  ELSE row[i] * vector[i] + hill_row_sum(row, vector, i + 1)

hill_multiply_matrix_vector(matrix, vector) ==
  [r \in 1..Len(matrix) |-> PyMod(hill_row_sum(matrix[r], vector, 1), 26)]

\* "X" * (size - (len(text_clean) % size)) appended when needed
hill_pad(text_clean, size) ==
  IF Len(text_clean) % size # 0
    THEN text_clean \o [i \in 1..(size - (Len(text_clean) % size)) |-> pad_X]
  ELSE text_clean

\* for block_start in range(0, len(text_clean), size): ...
RECURSIVE hill_blocks(_, _, _, _)
hill_blocks(matrix, text_clean, size, block_start) ==
  IF block_start >= Len(text_clean) THEN <<>>
  ELSE LET block == SubSeq(text_clean, block_start + 1, block_start + size)
           vector == [i \in 1..Len(block) |-> block[i] - ord_A]
           out_vector == hill_multiply_matrix_vector(matrix, vector)
       IN  [i \in 1..Len(out_vector) |-> out_vector[i] + ord_A]
             \o hill_blocks(matrix, text_clean, size, block_start + size)

\* for i, ch in enumerate(text): if ch.isalpha(): if char_idx < len(...): ...
RECURSIVE hill_restore(_, _, _, _, _)
hill_restore(t, result_chars, i, char_idx, result) ==
  IF i > Len(t) THEN result
  ELSE IF isalpha(t[i]) /\ char_idx < Len(result_chars)
    THEN hill_restore(t, result_chars, i + 1, char_idx + 1,
           Append(result, IF isupper(t[i]) THEN result_chars[char_idx + 1]
                          ELSE lower(result_chars[char_idx + 1])))
  ELSE hill_restore(t, result_chars, i + 1, char_idx, Append(result, t[i]))

\* the size clamp taking a size above 3 to 3
hill_size_large_to_three(size) == IF size < 2 THEN 2 ELSE IF size > 3 THEN 3 ELSE size

hill_size(size) == IF size < 2 \/ size > 3 THEN 2 ELSE size

hill_encrypt(t, key, size) ==
  LET n == hill_size(size)
      matrix == hill_create_matrix(key, n)
      text_clean == upper_letters(t)
  IN  IF text_clean = <<>> THEN Outcome("none", t, 0)
      ELSE Outcome("none",
                   hill_restore(t, hill_blocks(matrix, hill_pad(text_clean, n), n, 0),
                                1, 0, <<>>),
                   Len(t))

\* hill_decrypt once the inverse matrix is known
hill_decrypt_blocks(c, inverse_matrix, n) ==
  LET cipher_clean == upper_letters(c)
  IN  IF cipher_clean = <<>> THEN Outcome("none", c, 0)
      ELSE Outcome("none",
                   rstrip(hill_restore(c, hill_blocks(inverse_matrix,
                                                      hill_pad(cipher_clean, n), n, 0),
                                       1, 0, <<>>),
                          pad_X),
                   Len(c))

hill_decrypt_letters_checked_first(c, key, size) ==
  LET n == hill_size(size)
      inverse_matrix == hill_matrix_inverse(hill_create_matrix(key, n))
  IN  IF upper_letters(c) = <<>> THEN Outcome("none", c, 0)
      ELSE IF inverse_matrix.raised # "none" THEN Outcome("ValueError", <<>>, Len(c))
      ELSE hill_decrypt_blocks(c, inverse_matrix.value, n)

\* hill_decrypt working with 2 x 2 matrices whatever the size
hill_decrypt_always_two(c, key, size) ==
  LET inverse_matrix == hill_matrix_inverse(hill_create_matrix(key, 2))
  IN  IF inverse_matrix.raised # "none" THEN Outcome("ValueError", <<>>, 0)
      ELSE hill_decrypt_blocks(c, inverse_matrix.value, 2)

hill_decrypt(c, key, size) ==
  LET n == hill_size(size)
      inverse_matrix == hill_matrix_inverse(hill_create_matrix(key, n))
  IN  IF inverse_matrix.raised # "none" THEN Outcome("ValueError", <<>>, 0)
      ELSE hill_decrypt_blocks(c, inverse_matrix.value, n)

\* 'H', 'X', 'i', '!'
HillChars == {72, 88, 105, 33}

\* 'C', 'd', '1'
HillKeyChars == {67, 100, 49}

HillSizes == {2, 3}

InitHill ==
  /\ pc = "ready"
  /\ text \in SeqsUpTo(HillChars, MaxHillLen)
  /\ arg \in [key : SeqsUpTo(HillKeyChars, MaxHillKeyLen), size : HillSizes]
  /\ cipher = Null /\ plain = Null /\ ret = Null

HillEncrypt ==
  /\ pc = "ready"
  /\ cipher' = hill_encrypt(text, arg.key, arg.size)
  /\ pc' = "encrypted"
  /\ UNCHANGED <<text, arg, plain, ret>>

HillDecrypt ==
  /\ pc = "encrypted"
  /\ cipher.raised = "none"
  /\ plain' = hill_decrypt(cipher.value, arg.key, arg.size)
  /\ pc' = "decrypted"
  /\ UNCHANGED <<text, arg, cipher, ret>>

\* decrypt called on the text itself, as the form handler does in decrypt mode
HillDecryptText ==
  /\ pc = "ready"
  /\ plain' = hill_decrypt(text, arg.key, arg.size)
  /\ pc' = "decrypted_text"
  /\ UNCHANGED <<text, arg, cipher, ret>>

NextHill == HillEncrypt \/ HillDecrypt \/ HillDecryptText

SpecHill == InitHill /\ [][NextHill]_vars

\* The key's letter values, padded with 0 ('A') to n letters, and the
\* determinant of the matrix they fill row by row, defined without the code.
KeyValue(key, k) ==
  LET letters == upper_letters(key)
  IN  IF k <= Len(letters) THEN letters[k] - ord_A ELSE 0

KeyDeterminant(key, size) ==
  LET v(k) == KeyValue(key, k)
  IN  IF size = 2 THEN v(1) * v(4) - v(2) * v(3)
      ELSE v(1) * (v(5) * v(9) - v(6) * v(8))
           - v(2) * (v(4) * v(9) - v(6) * v(7))
           + v(3) * (v(4) * v(8) - v(5) * v(7))

KeyInvertible(key, size) ==
  LET det == KeyDeterminant(key, size)
  IN  det % 2 # 0 /\ det % 13 # 0

AllLetters(s) == \A i \in 1..Len(s) : isalpha(s[i])

\* C7: for every key whose 2x2 matrix is invertible mod 26 and every text,
\* hill_decrypt(hill_encrypt(lettersOnly(text), key, 2), key, 2) is the
\* uppercased letters of the text padded with 'X' to a multiple of 2, for
\* odd as well as even numbers of letters.
C7_HillRoundTrip ==
  (arg.size = 2 /\ KeyInvertible(arg.key, 2) /\ AllLetters(text)) =>
    /\ pc = "encrypted" => cipher.raised = "none"
    /\ pc = "decrypted" =>
         /\ plain.raised = "none"
         /\ plain.value = hill_pad(upper_letters(text), 2)

\* C10: hill_decrypt with a key whose matrix determinant has no inverse mod
\* 26 (divisible by 2 or 13) raises the key error for every ciphertext,
\* also one without letters, before any ciphertext character is processed.
C10_HillSingularKey ==
  (pc \in {"decrypted", "decrypted_text"} /\ ~KeyInvertible(arg.key, arg.size)) =>
    /\ plain.raised = "ValueError"
    /\ plain.processed = 0
    /\ plain.value = <<>>

\* hill_decrypt of a ciphertext without letters under a four-letter key with
\* an even, non-zero determinant.
C10_Witness ==
  /\ pc = "decrypted_text"
  /\ text # <<>> /\ upper_letters(text) = <<>>
  /\ arg.size = 2
  /\ Len(upper_letters(arg.key)) = 4
  /\ KeyDeterminant(arg.key, 2) # 0
  /\ KeyDeterminant(arg.key, 2) % 2 = 0
  /\ plain.raised = "ValueError"

(***************************************************************************)
(* Playfair                                                                *)
(***************************************************************************)
ord_I == 73

ord_J == 74

\* str.replace(old, new) for single characters
str_replace(s, old, new) == [i \in 1..Len(s) |-> IF s[i] = old THEN new ELSE s[i]]

\* str.isspace on one code point
isspace(ch) == ch \in {9, 10, 11, 12, 13, 32}

\* sep.join(parts)
RECURSIVE str_join(_, _)
str_join(sep, parts) ==
  IF parts = <<>> THEN <<>>
  ELSE IF Len(parts) = 1 THEN parts[1]
  ELSE parts[1] \o sep \o str_join(sep, Tail(parts))

\* str.split(): the words between runs of whitespace
RECURSIVE str_split(_)
str_split(s) ==
  IF s = <<>> THEN <<>>
  ELSE IF isspace(Head(s)) THEN str_split(Tail(s))
  ELSE LET stops == {k \in 1..Len(s) : isspace(s[k])}
           n == IF stops = {} THEN Len(s) + 1
                ELSE CHOOSE k \in stops : \A j \in stops : k <= j
       IN  <<SubSeq(s, 1, n - 1)>> \o str_split(SubSeq(s, n, Len(s)))

\* while i < len(text_clean): ... (the list result, from index i on)
RECURSIVE playfair_pairs(_, _)
playfair_pairs(text_clean, i) ==
  IF i >= Len(text_clean) THEN <<>>
  ELSE IF i = Len(text_clean) - 1 THEN << <<text_clean[i + 1], pad_X>> >>
  ELSE IF text_clean[i + 1] = text_clean[i + 2]
    THEN << <<text_clean[i + 1], pad_X>> >> \o playfair_pairs(text_clean, i + 1)
  ELSE << <<text_clean[i + 1], text_clean[i + 2]>> >>
         \o playfair_pairs(text_clean, i + 2)

playfair_prepare_text(t) ==
  LET text_clean == str_replace(upper_letters(t), ord_J, ord_I)
  IN  IF text_clean = <<>> THEN <<>>
      ELSE str_join(<<32>>, playfair_pairs(text_clean, 0))

\* for ch in key_clean: if ch not in seen: key_unique += ch; seen.add(ch)
RECURSIVE playfair_key_unique(_, _)
playfair_key_unique(key_clean, seen) ==
  IF key_clean = <<>> THEN <<>>
  ELSE IF Head(key_clean) \in seen
    THEN playfair_key_unique(Tail(key_clean), seen)
  ELSE <<Head(key_clean)>>
         \o playfair_key_unique(Tail(key_clean), seen \cup {Head(key_clean)})

\* "ABCDEFGHIKLMNOPQRSTUVWXYZ"
playfair_alphabet == [i \in 1..25 |-> IF i <= 9 THEN 64 + i ELSE 65 + i]

playfair_create_matrix(key) ==
  LET key_clean == str_replace(upper_letters(key), ord_J, ord_I)
      key_unique == playfair_key_unique(key_clean, {})
      alphabet == SelectSeq(playfair_alphabet,
                    LAMBDA c : \A k \in 1..Len(key_unique) : key_unique[k] # c)
      matrix_str == key_unique \o alphabet
  IN  [i \in 1..5 |-> [j \in 1..5 |-> matrix_str[(i - 1) * 5 + j]]]

\* (row, col), or (0, 0) for a character the matrix does not hold
playfair_find_position(matrix, ch) ==
  LET hits == {n \in 0..24 : matrix[(n \div 5) + 1][(n % 5) + 1] = ch}
  IN  IF hits = {} THEN <<0, 0>>
      ELSE LET n == CHOOSE k \in hits : \A j \in hits : k <= j
           IN  <<n \div 5, n % 5>>

playfair_encrypt_pair(matrix, pair) ==
  IF Len(pair) < 2 THEN pair
  ELSE LET p1 == playfair_find_position(matrix, pair[1])
           p2 == playfair_find_position(matrix, pair[2])
           row1 == p1[1]
           col1 == p1[2]
           row2 == p2[1]
           col2 == p2[2]
       IN  IF row1 = row2
             THEN <<matrix[row1 + 1][PyMod(col1 + 1, 5) + 1],
                    matrix[row2 + 1][PyMod(col2 + 1, 5) + 1]>>
           ELSE IF col1 = col2
             THEN <<matrix[PyMod(row1 + 1, 5) + 1][col1 + 1],
                    matrix[PyMod(row2 + 1, 5) + 1][col2 + 1]>>
           ELSE <<matrix[row1 + 1][col2 + 1], matrix[row2 + 1][col1 + 1]>>

\* playfair_decrypt_pair shifting as playfair_encrypt_pair does
playfair_decrypt_pair_shift_forward(matrix, pair) ==
  playfair_encrypt_pair(matrix, pair)

playfair_decrypt_pair(matrix, pair) ==
  IF Len(pair) < 2 THEN pair
  ELSE LET p1 == playfair_find_position(matrix, pair[1])
           p2 == playfair_find_position(matrix, pair[2])
           row1 == p1[1]
           col1 == p1[2]
           row2 == p2[1]
           col2 == p2[2]
       IN  IF row1 = row2
             THEN <<matrix[row1 + 1][PyMod(col1 - 1, 5) + 1],
                    matrix[row2 + 1][PyMod(col2 - 1, 5) + 1]>>
           ELSE IF col1 = col2
             THEN <<matrix[PyMod(row1 - 1, 5) + 1][col1 + 1],
                    matrix[PyMod(row2 - 1, 5) + 1][col2 + 1]>>
           ELSE <<matrix[row1 + 1][col2 + 1], matrix[row2 + 1][col1 + 1]>>

playfair_encrypt(t, key) ==
  IF key = <<>> \/ t = <<>> THEN t
  ELSE LET matrix == playfair_create_matrix(key)
           pairs == str_split(playfair_prepare_text(t))
       IN  str_join(<<>>, [k \in 1..Len(pairs) |->
             IF Len(pairs[k]) = 2 THEN playfair_encrypt_pair(matrix, pairs[k])
             ELSE pairs[k]])

\* for i in range(0, len(cipher_clean), 2): pair = cipher_clean[i:i+2]
playfair_slices(cipher_clean) ==
  [k \in 1..((Len(cipher_clean) + 1) \div 2) |->
     PySlice(cipher_clean, 2 * (k - 1), 2 * k)]

playfair_decrypt(c, key) ==
  IF key = <<>> \/ c = <<>> THEN c
  ELSE LET matrix == playfair_create_matrix(key)
           letters == upper_letters(c)
           cipher_clean == IF Len(letters) % 2 # 0 THEN Append(letters, pad_X)
                           ELSE letters
           pairs == playfair_slices(cipher_clean)
       IN  str_join(<<>>, [k \in 1..Len(pairs) |->
             IF Len(pairs[k]) = 2 THEN playfair_decrypt_pair(matrix, pairs[k])
             ELSE pairs[k]])
\* 'X', 'a', 'j', ' ', U+00E9
PlayfairChars == {88, 97, 106, 32, 233}

\* 'J', 'i', U+00E9, '1'
PlayfairKeyChars == {74, 105, 233, 49}

InitPlayfair ==
  /\ pc = "ready"
  /\ text \in SeqsUpTo(PlayfairChars, MaxPlayfairLen)
  /\ arg \in [key : SeqsUpTo(PlayfairKeyChars, MaxPlayfairKeyLen)]
  /\ cipher = Null /\ plain = Null /\ ret = Null

PlayfairPrepareText ==
  /\ pc = "ready"
  /\ ret' = playfair_prepare_text(text)
  /\ pc' = "prepared"
  /\ UNCHANGED <<text, arg, cipher, plain>>

PlayfairCreateMatrix ==
  /\ pc = "ready"
  /\ ret' = playfair_create_matrix(arg.key)
  /\ pc' = "matrix"
  /\ UNCHANGED <<text, arg, cipher, plain>>

PlayfairEncrypt ==
  /\ pc = "ready"
  /\ cipher' = playfair_encrypt(text, arg.key)
  /\ pc' = "encrypted"
  /\ UNCHANGED <<text, arg, plain, ret>>

PlayfairDecrypt ==
  /\ pc = "encrypted"
  /\ plain' = playfair_decrypt(cipher, arg.key)
  /\ pc' = "decrypted"
  /\ UNCHANGED <<text, arg, cipher, ret>>

\* playfair_decrypt called with the text itself as the ciphertext
PlayfairDecryptText ==
  /\ pc = "ready"
  /\ plain' = playfair_decrypt(text, arg.key)
  /\ pc' = "decrypted_text"
  /\ UNCHANGED <<text, arg, cipher, ret>>

NextPlayfair ==
  \/ PlayfairPrepareText
  \/ PlayfairCreateMatrix
  \/ PlayfairEncrypt
  \/ PlayfairDecrypt
  \/ PlayfairDecryptText

SpecPlayfair == InitPlayfair /\ [][NextPlayfair]_vars

(***************************************************************************)
(* Columnar transposition                                                  *)
(***************************************************************************)
\* "".join(ch for ch in text if ch.isalpha())
letters_only(s) == SelectSeq(s, isalpha)

\* list.index(v) of a value the list holds, counted from 0
list_index(l, v) ==
  (CHOOSE i \in 1..Len(l) : l[i] = v /\ \A j \in 1..(i - 1) : l[j] # v) - 1

\* order[old_pos] = new_pos, the rank of (key_upper[old_pos], old_pos) in
\* sorted(key_chars, key=lambda x: (x[1], x[0])); positions count from 0
columnar_get_key_order(key) ==
  LET key_upper == [i \in 1..Len(key) |-> upper(key[i])]
  IN  [old \in 1..Len(key) |->
        Cardinality({i \in 1..Len(key) :
          \/ key_upper[i] < key_upper[old]
          \/ key_upper[i] = key_upper[old] /\ i < old})]

columnar_get_key_order_reverse(key) ==
  LET order == columnar_get_key_order(key)
  IN  [pos \in 1..Len(order) |-> list_index(order, pos - 1)]

columnar_num_rows(length, key_len) == PyFloorDiv(length + key_len - 1, key_len)

columnar_encrypt(t, key) ==
  IF key = <<>> THEN t
  ELSE LET text_clean == letters_only(t)
       IN  IF text_clean = <<>> THEN t
           ELSE LET key_len == Len(key)
                    num_rows == columnar_num_rows(Len(text_clean), key_len)
                    grid == [i \in 1..num_rows |-> [j \in 1..key_len |->
                              IF (i - 1) * key_len + j <= Len(text_clean)
                                THEN text_clean[(i - 1) * key_len + j]
                              ELSE pad_X]]
                    order == columnar_get_key_order(key)
                IN  str_join(<<>>, [col_pos \in 1..key_len |->
                      [row \in 1..num_rows |->
                         grid[row][list_index(order, col_pos - 1) + 1]]])

\* chars_per_col with the first excess columns shortened
columnar_chars_per_col_first_columns(num_rows, key_len, excess) ==
  [j \in 1..key_len |-> IF j <= excess THEN num_rows - 1 ELSE num_rows]

\* for i in range(excess): chars_per_col[key_len - 1 - i] -= 1
columnar_chars_per_col(num_rows, key_len, excess) ==
  [j \in 1..key_len |-> IF j - 1 >= key_len - excess THEN num_rows - 1
                        ELSE num_rows]

\* for row in range(chars_per_col[col_idx]): grid[row][col_idx] = ...
\* (a cell of grid is <<>> for None, <<ch>> for a character)
RECURSIVE columnar_fill_col(_, _, _, _, _, _)
columnar_fill_col(cipher_clean, col_idx, count, row, cipher_idx, grid) ==
  IF row >= count THEN [grid |-> grid, cipher_idx |-> cipher_idx]
  ELSE IF cipher_idx < Len(cipher_clean)
    THEN columnar_fill_col(cipher_clean, col_idx, count, row + 1, cipher_idx + 1,
           [grid EXCEPT ![<<row, col_idx>>] = <<cipher_clean[cipher_idx + 1]>>])
  ELSE columnar_fill_col(cipher_clean, col_idx, count, row + 1, cipher_idx, grid)

\* for col_pos in range(key_len): col_idx = order.index(col_pos); ...
RECURSIVE columnar_fill(_, _, _, _, _, _)
columnar_fill(cipher_clean, order, chars_per_col, col_pos, cipher_idx, grid) ==
  IF col_pos >= Len(order) THEN grid
  ELSE LET col_idx == list_index(order, col_pos)
           filled == columnar_fill_col(cipher_clean, col_idx,
                       chars_per_col[col_idx + 1], 0, cipher_idx, grid)
       IN  columnar_fill(cipher_clean, order, chars_per_col, col_pos + 1,
                         filled.cipher_idx, filled.grid)

\* chars_per_col of columnar_decrypt for a ciphertext of letters
columnar_decrypt_counts(cipher_clean, key_len) ==
  LET num_rows == columnar_num_rows(Len(cipher_clean), key_len)
      excess == num_rows * key_len - Len(cipher_clean)
  IN  columnar_chars_per_col(num_rows, key_len, excess)

\* grid of columnar_decrypt once the ciphertext is distributed
columnar_decrypt_grid(cipher_clean, key) ==
  LET key_len == Len(key)
      num_rows == columnar_num_rows(Len(cipher_clean), key_len)
      order == columnar_get_key_order(key)
  IN  columnar_fill(cipher_clean, order,
        columnar_decrypt_counts(cipher_clean, key_len), 0, 0,
        [p \in (0..(num_rows - 1)) \X (0..(key_len - 1)) |-> <<>>])

\* for row in grid: for ch in row: if ch: result.append(ch)
columnar_decrypt_read(cipher_clean, key) ==
  route_read_rows(columnar_decrypt_grid(cipher_clean, key),
                  columnar_num_rows(Len(cipher_clean), Len(key)), Len(key), 0)

columnar_decrypt(c, key) ==
  IF key = <<>> THEN c
  ELSE LET cipher_clean == letters_only(c)
       IN  IF cipher_clean = <<>> THEN c
           ELSE rstrip(columnar_decrypt_read(cipher_clean, key), pad_X)

\* 'X', 'a', 'b', '-'
ColumnarChars == {88, 97, 98, 45}

\* 'b', 'A', 'a', '2'
ColumnarKeyChars == {98, 65, 97, 50}

InitColumnar ==
  /\ pc = "ready"
  /\ text \in SeqsUpTo(ColumnarChars, MaxColumnarLen)
  /\ arg \in [key : SeqsUpTo(ColumnarKeyChars, MaxColumnarKeyLen)]
  /\ cipher = Null /\ plain = Null /\ ret = Null

ColumnarEncrypt ==
  /\ pc = "ready"
  /\ cipher' = columnar_encrypt(text, arg.key)
  /\ pc' = "encrypted"
  /\ UNCHANGED <<text, arg, plain, ret>>

ColumnarDecrypt ==
  /\ pc = "encrypted"
  /\ plain' = columnar_decrypt(cipher, arg.key)
  /\ pc' = "decrypted"
  /\ UNCHANGED <<text, arg, cipher, ret>>

NextColumnar == ColumnarEncrypt \/ ColumnarDecrypt

SpecColumnar == InitColumnar /\ [][NextColumnar]_vars

(***************************************************************************)
(* Direct calls: a caller applies the encrypt or the decrypt function of   *)
(* one classical cipher to a text, with parameters of its own choice.      *)
(***************************************************************************)
Modes == {"encrypt", "decrypt"}

\* What a call produced, without the count of processed characters.
Result(o) == [raised |-> o.raised, value |-> o.value]

\* 'X', 'a', ' '
DirectChars == {88, 97, 32}

DirectShifts == {-1, 3, 29}

DirectAs == {-3, 0, 2, 5, 13}

\* Known plaintexts: "ABC", "WEAREDISCOVEREDFLEEATONCE", "ATTACKATDAWN",
\* "HELLO", and the key "LEMON".
text_ABC ==
  <<65, 66, 67>>

text_WEAREDISCOVEREDFLEEATONCE ==
  <<87, 69, 65, 82, 69, 68, 73, 83, 67, 79, 86, 69, 82, 69, 68, 70, 76, 69,
    69, 65, 84, 79, 78, 67, 69>>

text_ATTACKATDAWN ==
  <<65, 84, 84, 65, 67, 75, 65, 84, 68, 65, 87, 78>>

text_HELLO ==
  <<72, 69, 76, 76, 79>>

key_LEMON ==
  <<76, 69, 77, 79, 78>>

\* "GYBNQKURP": a key whose 3 x 3 matrix has the determinant 25 (mod 26)
key_GYBNQKURP == <<71, 89, 66, 78, 81, 75, 85, 82, 80>>

KnownTexts ==
  {text_ABC, text_WEAREDISCOVEREDFLEEATONCE, text_ATTACKATDAWN, text_HELLO}

DirectArgs ==
  [algorithm : {"caesar"}, mode : Modes, shift : DirectShifts]
  \cup [algorithm : {"railFence"}, mode : Modes, rails : MinRails..MaxRails]
  \cup [algorithm : {"vigenere"}, mode : Modes,
        key : SeqsUpTo(VigenereKeyChars, MaxDirectKeyLen) \cup {key_LEMON}]
  \cup [algorithm : {"vernam"}, mode : Modes,
        key : SeqsUpTo(VernamKeyChars, MaxDirectKeyLen)]
  \cup [algorithm : {"playfair"}, mode : Modes,
        key : SeqsUpTo(PlayfairKeyChars, MaxDirectKeyLen)]
  \cup [algorithm : {"route"}, mode : Modes,
        rows : MinRows..MaxRows, cols : MinCols..MaxCols]
  \cup [algorithm : {"affine"}, mode : Modes, a : DirectAs, b : AffineBs]
  \cup [algorithm : {"hill"}, mode : Modes,
        key : SeqsUpTo(HillKeyChars, MaxHillKeyLen) \cup {key_GYBNQKURP},
        size : HillSizes]
  \cup [algorithm : {"columnar"}, mode : Modes,
        key : SeqsUpTo(ColumnarKeyChars, MaxDirectKeyLen)]

InitDirect ==
  /\ pc = "ready"
  /\ text \in SeqsUpTo(DirectChars, MaxDirectLen) \cup KnownTexts
  /\ arg \in DirectArgs
  /\ cipher = Null /\ plain = Null /\ ret = Null

\* The call handle_form makes for an algorithm and a mode (any mode other
\* than "encrypt" decrypts); a holds the parameters of the algorithm.
cipher_call(a, t) ==
  LET encrypt == a.mode = "encrypt"
  IN  CASE a.algorithm = "caesar" ->
             Returned(IF encrypt THEN caesar_encrypt(t, a.shift)
                      ELSE caesar_decrypt(t, a.shift))
        [] a.algorithm = "railFence" ->
             IF encrypt THEN rail_fence_encrypt(t, a.rails)
             ELSE rail_fence_decrypt(t, a.rails)
        [] a.algorithm = "vigenere" ->
             Returned(IF encrypt THEN vigenere_encrypt(t, a.key)
                      ELSE vigenere_decrypt(t, a.key))
        [] a.algorithm = "vernam" ->
             IF encrypt THEN vernam_encrypt(t, a.key)
             ELSE vernam_decrypt(t, a.key)
        [] a.algorithm = "playfair" ->
             Returned(IF encrypt THEN playfair_encrypt(t, a.key)
                      ELSE playfair_decrypt(t, a.key))
        [] a.algorithm = "route" ->
             IF encrypt THEN route_encrypt(t, a.rows, a.cols)
             ELSE route_decrypt(t, a.rows, a.cols)
        [] a.algorithm = "affine" ->
             Result(IF encrypt THEN affine_encrypt(t, a.a, a.b)
                    ELSE affine_decrypt(t, a.a, a.b))
        [] a.algorithm = "hill" ->
             Result(IF encrypt THEN hill_encrypt(t, a.key, a.size)
                    ELSE hill_decrypt(t, a.key, a.size))
        [] a.algorithm = "columnar" ->
             Returned(IF encrypt THEN columnar_encrypt(t, a.key)
                      ELSE columnar_decrypt(t, a.key))

\* The common shape of the nine actions below: the function is called and
\* returns or raises.
Called(algorithm) ==
  /\ pc = "ready"
  /\ arg.algorithm = algorithm
  /\ ret' = cipher_call(arg, text)
  /\ pc' = "called"
  /\ UNCHANGED <<text, arg, cipher, plain>>

DirectCaesar == Called("caesar")

DirectRailFence == Called("railFence")

DirectVigenere == Called("vigenere")

DirectVernam == Called("vernam")

DirectPlayfair == Called("playfair")

DirectRoute == Called("route")

DirectAffine == Called("affine")

DirectHill == Called("hill")

DirectColumnar == Called("columnar")

NextDirect ==
  \/ DirectCaesar
  \/ DirectRailFence
  \/ DirectVigenere
  \/ DirectVernam
  \/ DirectPlayfair
  \/ DirectRoute
  \/ DirectAffine
  \/ DirectHill
  \/ DirectColumnar

SpecDirect == InitDirect /\ [][NextDirect]_vars

\* C11: for every classical cipher, encrypt and decrypt called with the
\* empty text return the empty text and raise no error.
C11_EmptyText ==
  (pc = "called" /\ text = <<>>) => ret = Returned(<<>>)

\* C12: rail_fence_encrypt and rail_fence_decrypt return their input
\* unchanged whenever rails < 2, and route_encrypt and route_decrypt return
\* their input unchanged whenever rows < 1 or cols < 1, for every text.
C12_DegeneratePassthrough ==
  /\ (pc = "called" /\ arg.algorithm = "railFence" /\ arg.rails < 2) =>
       ret = Returned(text)
  /\ (pc = "called" /\ arg.algorithm = "route"
        /\ (arg.rows < 1 \/ arg.cols < 1)) =>
       ret = Returned(text)

\* rail_fence_decrypt with one rail has returned a text of several
\* characters.
C12_Witness ==
  /\ pc = "called"
  /\ arg.algorithm = "railFence" /\ arg.mode = "decrypt" /\ arg.rails = 1
  /\ Len(text) >= 2
  /\ ret = Returned(text)

\* route_encrypt with no column (and rows >= 1) has returned a text of
\* several characters.
C12_WitnessRoute ==
  /\ pc = "called"
  /\ arg.algorithm = "route" /\ arg.mode = "encrypt"
  /\ arg.rows >= 1 /\ arg.cols = 0
  /\ Len(text) >= 2
  /\ ret = Returned(text)

\* C14: known vectors: caesar_encrypt("ABC", 3) == "DEF";
\* rail_fence_encrypt("WEAREDISCOVEREDFLEEATONCE", 3) ==
\* "WECRLTEERDSOEEFEAOCAIVDEN"; vigenere_encrypt("ATTACKATDAWN", "LEMON") ==
\* "LXFOPVEFRNHR"; affine_encrypt("HELLO", 5, 8) is, letter by letter,
\* (5 * x + 8) mod 26 ("RCLLA").
C14_KnownVectors ==
  (pc = "called" /\ arg.mode = "encrypt") =>
    /\ (arg.algorithm = "caesar" /\ text = text_ABC /\ arg.shift = 3) =>
         ret = Returned(<<68, 69, 70>>)
    /\ (arg.algorithm = "railFence" /\ text = text_WEAREDISCOVEREDFLEEATONCE
          /\ arg.rails = 3) =>
         ret = Returned(
             <<87, 69, 67, 82, 76, 84, 69, 69, 82, 68, 83, 79, 69, 69, 70,
               69, 65, 79, 67, 65, 73, 86, 68, 69, 78>>)
    /\ (arg.algorithm = "vigenere" /\ text = text_ATTACKATDAWN
          /\ arg.key = key_LEMON) =>
         ret = Returned(
             <<76, 88, 70, 79, 80, 86, 69, 70, 82, 78, 72, 82>>)
    /\ (arg.algorithm = "affine" /\ text = text_HELLO
          /\ arg.a = 5 /\ arg.b = 8) =>
         /\ ret = Returned([i \in 1..5 |->
                     65 + ((5 * (text_HELLO[i] - 65) + 8) % 26)])
         /\ ret.value = <<82, 67, 76, 76, 65>>

\* vigenere_encrypt has been applied to "ATTACKATDAWN" under "LEMON", whose
\* five letters were repeated over the twelve of the text.
C14_Witness ==
  /\ pc = "called"
  /\ arg.algorithm = "vigenere" /\ arg.mode = "encrypt"
  /\ text = text_ATTACKATDAWN /\ arg.key = key_LEMON
  /\ Len(ret.value) = 12 /\ ret.value # text

\* The other three vectors.
C14_WitnessCaesar ==
  /\ pc = "called" /\ arg.algorithm = "caesar" /\ arg.mode = "encrypt"
  /\ text = text_ABC /\ arg.shift = 3

C14_WitnessRailFence ==
  /\ pc = "called" /\ arg.algorithm = "railFence" /\ arg.mode = "encrypt"
  /\ text = text_WEAREDISCOVEREDFLEEATONCE /\ arg.rails = 3

C14_WitnessAffine ==
  /\ pc = "called" /\ arg.algorithm = "affine" /\ arg.mode = "encrypt"
  /\ text = text_HELLO /\ arg.a = 5 /\ arg.b = 8

(***************************************************************************)
(* handle_form, for the nine classical algorithms.  A request is the       *)
(* record of its form fields; a field the request does not carry is        *)
(* absent from the record.  The status of the returned FormState keeps     *)
(* the fixed part of the message, in ASCII.                                *)
(***************************************************************************)
KeyedAlgorithms == {"vigenere", "vernam", "playfair", "hill", "columnar"}

Algorithms == KeyedAlgorithms \cup {"caesar", "railFence", "route", "affine"}

\* req.form.get(name, default)
form_get(form, name, default) ==
  IF name \in DOMAIN form THEN form[name] ELSE default

\* str.strip()
strip(s) ==
  LET keep == {i \in 1..Len(s) : ~isspace(s[i])}
  IN  IF keep = {} THEN <<>>
      ELSE SubSeq(s, CHOOSE i \in keep : \A j \in keep : i <= j,
                     CHOOSE i \in keep : \A j \in keep : i >= j)

RECURSIVE digits_value(_)
digits_value(digits) ==
  IF digits = <<>> THEN 0
  ELSE 10 * digits_value(SubSeq(digits, 1, Len(digits) - 1))
         + (digits[Len(digits)] - 48)

\* int(raw) for ASCII text: blanks around an optional sign and decimal
\* digits; None stands for ValueError
py_int(raw) ==
  LET s == strip(raw)
      signed == s # <<>> /\ s[1] \in {43, 45}
      digits == IF signed THEN Tail(s) ELSE s
  IN  IF digits = <<>> \/ \E i \in 1..Len(digits) : digits[i] \notin 48..57
        THEN None
      ELSE Some((IF signed /\ s[1] = 45 THEN -1 ELSE 1) * digits_value(digits))

handle_form(form) ==
  LET t == strip(form_get(form, "text", <<>>))
      algorithm == form_get(form, "algorithm", "caesar")
      key(name) == strip(form_get(form, name, <<>>))
      int(name, default) == py_int(form_get(form, name, default))
      shift == int("caesarShift", <<51>>)
      rails == int("railRails", <<51>>)
      rows == int("routeRows", <<52>>)
      cols == int("routeCols", <<52>>)
      a == int("affineA", <<53>>)
      b == int("affineB", <<56>>)
      size == int("hillSize", <<50>>)
      state ==
        [text |-> t, output |-> <<>>, algorithm |-> algorithm,
         mode |-> form_get(form, "mode", "encrypt"),
         caesar_shift |-> IF shift.is_none THEN 3 ELSE shift.value,
         rail_rails |-> IF rails.is_none THEN 3
                        ELSE IF rails.value < 2 THEN 2 ELSE rails.value,
         vigenere_key |-> key("vigenereKey"),
         vernam_key |-> key("vernamKey"),
         playfair_key |-> key("playfairKey"),
         route_rows |-> IF rows.is_none THEN 4
                        ELSE IF rows.value < 2 THEN 2 ELSE rows.value,
         route_cols |-> IF cols.is_none THEN 4
                        ELSE IF cols.value < 2 THEN 2 ELSE cols.value,
         affine_a |-> IF a.is_none \/ a.value < 1 \/ a.value > 25 THEN 5
                      ELSE a.value,
         affine_b |-> IF b.is_none \/ b.value < 0 \/ b.value > 25 THEN 8
                      ELSE b.value,
         hill_key |-> key("hillKey"),
         hill_size |-> IF size.is_none THEN 2
                       ELSE IF size.value < 2 THEN 2
                       ELSE IF size.value > 3 THEN 3 ELSE size.value,
         columnar_key |-> key("columnarKey"),
         status |-> "", is_error |-> FALSE]
      failed(status) == [state EXCEPT !.status = status, !.is_error = TRUE]
      the_key == CASE algorithm = "vigenere" -> state.vigenere_key
                   [] algorithm = "vernam" -> state.vernam_key
                   [] algorithm = "playfair" -> state.playfair_key
                   [] algorithm = "hill" -> state.hill_key
                   [] algorithm = "columnar" -> state.columnar_key
                   [] OTHER -> <<>>
      result == cipher_call(
                  [algorithm |-> algorithm, mode |-> state.mode,
                   shift |-> state.caesar_shift, rails |-> state.rail_rails,
                   rows |-> state.route_rows, cols |-> state.route_cols,
                   a |-> state.affine_a, b |-> state.affine_b,
                   key |-> the_key, size |-> state.hill_size], t)
  IN  IF t = <<>> THEN failed("Lutfen bir metin girin.")
      ELSE IF algorithm \notin Algorithms
        THEN failed("Bilinmeyen algoritma secildi.")
      ELSE IF algorithm \in KeyedAlgorithms /\ the_key = <<>>
        THEN failed("anahtar gereklidir.")
      ELSE IF result.raised = "none"
        THEN [state EXCEPT !.output = result.value, !.status = "tamamlandi."]
      ELSE IF algorithm = "affine" THEN failed("Affine hatasi")
      ELSE IF algorithm = "hill" THEN failed("Hill Cipher hatasi")
      ELSE failed("Islem sirasinda bir hata olustu")

\* The form field that carries the key of a keyed algorithm.
form_key_field ==
  [vigenere |-> "vigenereKey", vernam |-> "vernamKey",
   playfair |-> "playfairKey", hill |-> "hillKey", columnar |-> "columnarKey"]

FormTexts == SeqsUpTo(DirectChars, MaxDirectLen)

FormKeys == SeqsUpTo(VernamKeyChars, MaxKeyLen)

\* "3", "-1", " 2", "x", ""
FormInts == {<<51>>, <<45, 49>>, <<32, 50>>, <<120>>, <<>>}

\* The requests: every one carries text, algorithm and mode; the fields of
\* the algorithm are present or missing.
Forms ==
  [algorithm : {"caesar"}, mode : Modes, text : FormTexts, caesarShift : FormInts]
  \cup [algorithm : {"railFence"}, mode : Modes, text : FormTexts,
        railRails : FormInts]
  \cup [algorithm : {"vigenere"}, mode : Modes, text : FormTexts,
        vigenereKey : FormKeys]
  \cup [algorithm : {"vernam"}, mode : Modes, text : FormTexts,
        vernamKey : FormKeys]
  \cup [algorithm : {"playfair"}, mode : Modes, text : FormTexts,
        playfairKey : FormKeys]
  \cup [algorithm : {"route"}, mode : Modes, text : FormTexts,
        routeRows : FormInts, routeCols : FormInts]
  \cup [algorithm : {"affine"}, mode : Modes, text : FormTexts,
        affineA : FormInts \cup {<<50, 54>>}, affineB : FormInts]
  \cup [algorithm : {"hill"}, mode : Modes, text : FormTexts,
        hillKey : FormKeys, hillSize : FormInts \cup {<<50, 54>>}]
  \cup [algorithm : {"hill"}, mode : Modes, text : FormTexts, hillKey : FormKeys]
  \cup [algorithm : {"columnar"}, mode : Modes, text : FormTexts,
        columnarKey : FormKeys]
  \cup [algorithm : Algorithms \cup {"rot13"}, mode : Modes, text : FormTexts]

InitForm ==
  /\ pc = "ready"
  /\ arg \in Forms
  /\ text = arg.text
  /\ cipher = Null /\ plain = Null /\ ret = Null

HandleForm ==
  /\ pc = "ready"
  /\ ret' = handle_form(arg)
  /\ pc' = "handled"
  /\ UNCHANGED <<text, arg, cipher, plain>>

\* The function of a keyed cipher is called with the text and the key of
\* the request as they are (no key for a missing one).
CallKeyed ==
  /\ pc = "ready"
  /\ arg.algorithm \in KeyedAlgorithms
  /\ \E size \in HillSizes :
       ret' = cipher_call(
                [algorithm |-> arg.algorithm, mode |-> arg.mode,
                 key |-> form_get(arg, form_key_field[arg.algorithm], <<>>),
                 size |-> size], text)
  /\ pc' = "called"
  /\ UNCHANGED <<text, arg, cipher, plain>>

NextForm == HandleForm \/ CallKeyed

SpecForm == InitForm /\ [][NextForm]_vars

\* The key of the request, as posted.
PostedKey == form_get(arg, form_key_field[arg.algorithm], <<>>)

\* C13: a keyed cipher (Vigenere, Vernam, Playfair, Columnar, Hill) invoked
\* with an empty or missing key reports an error to its caller and returns
\* no transformed output, through handle_form as well as when its function
\* is called.
C13_EmptyKeyReported ==
  arg.algorithm \in KeyedAlgorithms =>
    /\ (pc = "handled" /\ strip(PostedKey) = <<>>) =>
         (ret.is_error /\ ret.output = <<>>)
    /\ (pc = "called" /\ PostedKey = <<>>) => ret.raised # "none"

\* What does hold: handle_form reports the missing key (after the missing
\* text) and leaves the output empty; the functions themselves raise nothing
\* for an empty key, except hill_decrypt, whose all-'A' matrix is singular.
C13_HandleFormReports ==
  (arg.algorithm \in KeyedAlgorithms) =>
    /\ (pc = "handled" /\ strip(PostedKey) = <<>>) =>
         /\ ret.is_error /\ ret.output = <<>>
         /\ ret.status = (IF strip(text) = <<>> THEN "Lutfen bir metin girin."
                          ELSE "anahtar gereklidir.")
    /\ (pc = "called" /\ PostedKey = <<>>) =>
         IF arg.algorithm # "hill" THEN ret = Returned(text)
         ELSE ret.raised = (IF arg.mode = "encrypt" THEN "none" ELSE "ValueError")

\* The letters A-Z, a-z of a key, uppercased, J as I, each kept at its first
\* occurrence only.
KeyLetters(key) ==
  LET ascii == SelectSeq(key, LAMBDA c : (65 <= c /\ c <= 90) \/ (97 <= c /\ c <= 122))
      merged == [i \in 1..Len(ascii) |->
                  LET u == IF ascii[i] >= 97 THEN ascii[i] - 32 ELSE ascii[i]
                  IN  IF u = 74 THEN 73 ELSE u]
  IN  playfair_key_unique(merged, {})

\* The 25 cells of a matrix, row by row.
Cells(matrix) ==
  [n \in 1..25 |-> matrix[((n - 1) \div 5) + 1][((n - 1) % 5) + 1]]

\* C15: for every key the matrix of playfair_create_matrix holds every
\* letter A-Z except J exactly once, the distinct letters of the key (J as
\* I) first, in the order of their first occurrence, and the unused letters
\* after them in alphabetical order.
C15_PlayfairMatrix ==
  pc = "matrix" =>
    LET cells == Cells(ret)
        first == KeyLetters(arg.key)
    IN  /\ {cells[n] : n \in 1..25} = (65..90) \ {74}
        /\ \A m, n \in 1..25 : cells[m] = cells[n] => m = n
        /\ SubSeq(cells, 1, Len(first)) = first
        /\ \A m, n \in (Len(first) + 1)..25 : m < n => cells[m] < cells[n]

\* The filler that separates two copies of ch, or completes a lone ch: 'X',
\* and 'Y' (89) for ch = 'X'.
FillerFor(ch) == IF ch = pad_X THEN 89 ELSE pad_X

\* The digraphs of a cleaned text: two different neighbours form a digraph, a
\* letter followed by its own copy is completed by a filler, and so is a
\* letter left alone at the end.
RECURSIVE Digraphs(_)
Digraphs(s) ==
  IF s = <<>> THEN <<>>
  ELSE IF Len(s) = 1 \/ s[1] = s[2]
    THEN << <<s[1], FillerFor(s[1])>> >> \o Digraphs(Tail(s))
  ELSE << <<s[1], s[2]>> >> \o Digraphs(SubSeq(s, 3, Len(s)))

\* C19: playfair_prepare_text splits the cleaned text (letters, uppercased,
\* J as I) into digraphs of two letters each; two identical neighbours are
\* separated by the filler 'X', or by 'Y' when the letters are "XX"; a letter
\* left alone at the end gets a filler; no digraph holds the same letter
\* twice.
C19_PrepareTextDigraphs ==
  pc = "prepared" =>
    LET text_clean == str_replace(upper_letters(text), ord_J, ord_I)
        digraphs == str_split(ret)
    IN  /\ digraphs = Digraphs(text_clean)
        /\ \A k \in 1..Len(digraphs) :
             Len(digraphs[k]) = 2 /\ digraphs[k][1] # digraphs[k][2]

\* The pairwise decryption of the letters of an input, padded with 'X' to an
\* even length.
PaddedPairsDecrypted(input, key) ==
  LET letters == upper_letters(input)
      padded == IF Len(letters) % 2 # 0 THEN Append(letters, pad_X) ELSE letters
      matrix == playfair_create_matrix(key)
  IN  str_join(<<>>, [k \in 1..(Len(padded) \div 2) |->
        playfair_decrypt_pair(matrix, <<padded[2 * k - 1], padded[2 * k]>>)])

\* C20: playfair_decrypt (key and ciphertext not empty) pads a ciphertext
\* with an odd number of letters with 'X' before pairing and removes the
\* trailing 'X' letters from its output, so the result never ends in 'X'.
C20_DecryptTrimsFiller ==
  LET input == IF pc = "decrypted" THEN cipher ELSE text
  IN  (pc \in {"decrypted", "decrypted_text"} /\ arg.key # <<>> /\ input # <<>>) =>
        /\ plain = rstrip(PaddedPairsDecrypted(input, arg.key), pad_X)
        /\ plain = <<>> \/ plain[Len(plain)] # pad_X

(***************************************************************************)
(* Playfair, one pair: playfair_encrypt_pair and playfair_decrypt_pair on  *)
(* the matrix of a key and two letters of that matrix.                     *)
(***************************************************************************)
InitPlayfairPair ==
  /\ pc = "ready"
  /\ text = <<>>
  /\ arg \in {[key |-> key, pair |-> <<Cells(playfair_create_matrix(key))[m],
                                        Cells(playfair_create_matrix(key))[n]>>] :
                key \in SeqsUpTo(PlayfairKeyChars, MaxPlayfairKeyLen),
                m \in 1..25, n \in 1..25}
  /\ cipher = Null /\ plain = Null /\ ret = Null

PlayfairEncryptPair ==
  /\ pc = "ready"
  /\ cipher' = playfair_encrypt_pair(playfair_create_matrix(arg.key), arg.pair)
  /\ pc' = "pair_encrypted"
  /\ UNCHANGED <<text, arg, plain, ret>>

PlayfairDecryptPair ==
  /\ pc = "pair_encrypted"
  /\ plain' = playfair_decrypt_pair(playfair_create_matrix(arg.key), cipher)
  /\ pc' = "pair_decrypted"
  /\ UNCHANGED <<text, arg, cipher, ret>>

NextPlayfairPair == PlayfairEncryptPair \/ PlayfairDecryptPair

SpecPlayfairPair == InitPlayfairPair /\ [][NextPlayfairPair]_vars

\* The position (row, col) of a letter in the matrix of the key.
PairPosition(k) == playfair_find_position(playfair_create_matrix(arg.key), arg.pair[k])

CipherPosition(k) == playfair_find_position(playfair_create_matrix(arg.key), cipher[k])

\* C21: for every matrix and every pair of letters of that matrix,
\* decrypt_pair(encrypt_pair(pair)) = pair; encrypt_pair moves a same-row
\* pair one column right (wrapping at 5), a same-column pair one row down,
\* and swaps the columns of a rectangle pair, for which decrypt_pair is the
\* same function.
C21_PairRoundTrip ==
  /\ pc = "pair_decrypted" => plain = arg.pair
  /\ pc = "pair_encrypted" =>
       \A k \in 1..2 :
         LET p == PairPosition(k)
             q == PairPosition(3 - k)
             c == CipherPosition(k)
         IN  IF p[1] = q[1] THEN c = <<p[1], (p[2] + 1) % 5>>
             ELSE IF p[2] = q[2] THEN c = <<(p[1] + 1) % 5, p[2]>>
             ELSE /\ c = <<p[1], q[2]>>
                  /\ playfair_decrypt_pair(playfair_create_matrix(arg.key), arg.pair)
                       = cipher

\* A same-row pair at the right edge of the matrix of "J": "DA" -> "IB" -> "DA".
C21_Witness ==
  /\ pc = "pair_decrypted"
  /\ arg.key = <<74>> /\ arg.pair = <<68, 65>>
  /\ cipher = <<73, 66>>
  /\ plain = arg.pair

\* A same-column pair and a rectangle pair.
C21_WitnessColumn ==
  /\ pc = "pair_decrypted"
  /\ PairPosition(1)[2] = PairPosition(2)[2] /\ PairPosition(1)[1] = 4
  /\ PairPosition(2)[1] # 4

C21_WitnessRectangle ==
  /\ pc = "pair_decrypted"
  /\ PairPosition(1)[1] # PairPosition(2)[1]
  /\ PairPosition(1)[2] # PairPosition(2)[2]

(***************************************************************************)
(* The substitution ciphers on letters whose uppercase form has two        *)
(* characters: "ß".upper() is "SS" and U+FB01 (the ligature fi) gives "FI"; *)
(* str.isalpha holds for both.  ord(ch.upper()) raises TypeError for them,  *)
(* and "".join(ch.upper() for ch in key if ch.isalpha()) holds two letters  *)
(* for each.                                                               *)
(***************************************************************************)
ord_eszett == 223

ord_fi == 64257

\* len(ch.upper())
upper_len(ch) == IF ch \in {ord_eszett, ord_fi} THEN 2 ELSE 1

\* A key with the same key_clean in which every character has an uppercase
\* form of one character.
RECURSIVE key_expanded(_)
key_expanded(key) ==
  IF key = <<>> THEN <<>>
  ELSE (IF Head(key) = ord_eszett THEN <<83, 83>>
        ELSE IF Head(key) = ord_fi THEN <<70, 73>>
        ELSE <<Head(key)>>) \o key_expanded(Tail(key))

\* ord(ch.upper()) raises for some letter of the text
ord_upper_raises(t) == \E i \in 1..Len(t) : upper_len(t[i]) # 1

\* 'A', 'z', ' ', U+00DF
SubstitutionChars == {65, 122, 32, ord_eszett}

SubstitutionAs == {2, 5}

SubstitutionBs == {0, 8}

SubstitutionArgs ==
  [algorithm : {"caesar"}, mode : Modes, shift : DirectShifts]
    \cup [algorithm : {"vigenere"}, mode : Modes,
          key : SeqsUpTo(VigenereKeyChars, MaxKeyLen) \cup {<<ord_fi>>}]
    \cup [algorithm : {"affine"}, mode : Modes,
          a : SubstitutionAs, b : SubstitutionBs]

InitSubstitution ==
  /\ pc = "ready"
  /\ text \in SeqsUpTo(SubstitutionChars, MaxLen)
  /\ arg \in SubstitutionArgs
  /\ cipher = Null /\ plain = Null /\ ret = Null

\* caesar_*, vigenere_* and affine_* on such a text
substitution_call(a, t) ==
  LET encrypt == a.mode = "encrypt"
  IN  CASE a.algorithm = "caesar" ->
             Returned(IF encrypt THEN caesar_encrypt(t, a.shift)
                      ELSE caesar_decrypt(t, a.shift))
        [] a.algorithm = "vigenere" ->
             IF a.key # <<>> /\ ord_upper_raises(t) THEN Raised("TypeError")
             ELSE Returned(IF encrypt THEN vigenere_encrypt(t, key_expanded(a.key))
                           ELSE vigenere_decrypt(t, key_expanded(a.key)))
        [] a.algorithm = "affine" ->
             IF (IF encrypt THEN gcd_extended(a.a, 26)[1] # 1
                 ELSE mod_inverse(a.a, 26).is_none)
               THEN Raised("ValueError")
             ELSE IF ord_upper_raises(t) THEN Raised("TypeError")
             ELSE Result(IF encrypt THEN affine_encrypt(t, a.a, a.b)
                         ELSE affine_decrypt(t, a.a, a.b))

SubstitutionCalled(algorithm) ==
  /\ pc = "ready"
  /\ arg.algorithm = algorithm
  /\ ret' = substitution_call(arg, text)
  /\ pc' = "returned"
  /\ UNCHANGED <<text, arg, cipher, plain>>

SubstitutionCaesar == SubstitutionCalled("caesar")

SubstitutionVigenere == SubstitutionCalled("vigenere")

SubstitutionAffine == SubstitutionCalled("affine")

NextSubstitution ==
  \/ SubstitutionCaesar
  \/ SubstitutionVigenere
  \/ SubstitutionAffine

SpecSubstitution == InitSubstitution /\ [][NextSubstitution]_vars

\* A letter: what str.isalpha accepts among the characters drawn.
IsLetter(ch) == isalpha(ch) \/ ch \in {ord_eszett, ord_fi}

\* C23: caesar_encrypt, affine_encrypt (a coprime to 26), vigenere_encrypt
\* and their decrypt counterparts return an output of the length of the
\* input in which every non-letter is unchanged at its index and every
\* letter position holds a letter of the same case; Caesar's result is the
\* same for shift and for shift mod 26.
C23_SubstitutionFrame ==
  (pc = "returned" /\ (arg.algorithm = "affine" => MathGcd(arg.a, 26) = 1)) =>
    /\ ret.raised = "none"
    /\ Len(ret.value) = Len(text)
    /\ \A i \in 1..Len(text) :
         /\ ~IsLetter(text[i]) => ret.value[i] = text[i]
         /\ IsLetter(text[i]) =>
              /\ IsLetter(ret.value[i])
              /\ isupper(ret.value[i]) = isupper(text[i])
    /\ arg.algorithm = "caesar" =>
         ret.value = (IF arg.mode = "encrypt"
                        THEN caesar_encrypt(text, PyMod(arg.shift, 26))
                      ELSE caesar_decrypt(text, PyMod(arg.shift, 26)))

IsAsciiLetter(ch) == (65 <= ch /\ ch <= 90) \/ (97 <= ch /\ ch <= 122)

\* The number of letters among the first n characters of s.
LettersBefore(s, n) == Cardinality({j \in 1..n : IsLetter(s[j])})

\* How far the function moved the ASCII letter at index i of the text
\* within its alphabet, 0..25.
ShiftAt(i) == PyMod(ret.value[i] - text[i], 26)

\* C22: in vigenere_encrypt and vigenere_decrypt (key not empty) the key
\* counts by its letters only, a key without letters is the shift 0, and the
\* key index advances on the letters of the text only: the letter with k
\* letters before it is shifted by the key letter k mod (number of key
\* letters), A = 0 .. Z = 25, whatever non-letters precede it.
C22_KeyIndexOnLetters ==
  (pc = "returned" /\ arg.algorithm = "vigenere" /\ arg.key # <<>>) =>
    LET letters == SelectSeq(arg.key, IsLetter)
        n == IF letters = <<>> THEN 1 ELSE Len(letters)
        k(i) == LettersBefore(text, i - 1) % n
        sign == IF arg.mode = "encrypt" THEN 1 ELSE -1
        positions == {i \in 1..Len(text) : IsAsciiLetter(text[i])}
    IN  /\ ret.raised = "none"
        /\ Len(ret.value) = Len(text)
        /\ \A i \in positions :
             /\ IsAsciiLetter(ret.value[i])
             /\ letters = <<>> => ShiftAt(i) = 0
             /\ (letters # <<>> /\ IsAsciiLetter(letters[k(i) + 1])) =>
                  ShiftAt(i) = PyMod(sign * (upper(letters[k(i) + 1]) - ord_A), 26)
        /\ \A i, j \in positions : k(i) = k(j) => ShiftAt(i) = ShiftAt(j)

(***************************************************************************)
(* Hill with a size other than 2 and 3                                     *)
(***************************************************************************)
HillOtherSizes == {0, 1, 4}

InitHillSize ==
  /\ pc = "ready"
  /\ text \in SeqsUpTo(HillChars, MaxHillLen)
  /\ arg \in [key : SeqsUpTo(HillKeyChars, MaxHillKeyLen), size : HillOtherSizes]
  /\ cipher = Null /\ plain = Null /\ ret = Null

HillEncryptSize ==
  /\ pc = "ready"
  /\ cipher' = hill_encrypt(text, arg.key, arg.size)
  /\ pc' = "size_encrypted"
  /\ UNCHANGED <<text, arg, plain, ret>>

\* hill_decrypt called with the text as the ciphertext
HillDecryptSize ==
  /\ pc = "ready"
  /\ plain' = hill_decrypt(text, arg.key, arg.size)
  /\ pc' = "size_decrypted"
  /\ UNCHANGED <<text, arg, cipher, ret>>

NextHillSize == HillEncryptSize \/ HillDecryptSize

SpecHillSize == InitHillSize /\ [][NextHillSize]_vars

\* C24: for every size outside {2, 3}, every text and every key,
\* hill_encrypt(text, key, size) is hill_encrypt(text, key, 2) and
\* hill_decrypt(text, key, size) returns or raises as hill_decrypt(text,
\* key, 2) does; no error is raised because of the size.
C24_SizeClampedToTwo ==
  /\ pc = "size_encrypted" =>
       /\ cipher = hill_encrypt(text, arg.key, 2)
       /\ cipher.raised = "none"
  /\ pc = "size_decrypted" =>
       /\ plain = hill_decrypt(text, arg.key, 2)
       /\ plain.raised = "ValueError" =>
            ~KeyInvertible(arg.key, 2)

\* Size 4 and the key "Cd1C": "Hi" is encrypted with the 2 x 2 matrix of the
\* letters "CDC" padded with 'A'.
C24_Witness ==
  /\ pc = "size_encrypted"
  /\ arg.size = 4 /\ arg.key = <<67, 100, 49, 67>>
  /\ text = <<72, 105>>
  /\ cipher.raised = "none" /\ Len(cipher.value) = 2
  /\ cipher.value # text

\* hill_decrypt with size 4 returning a plaintext.
C24_WitnessDecrypt ==
  /\ pc = "size_decrypted"
  /\ arg.size = 4
  /\ text = <<72, 105>>
  /\ plain.raised = "none" /\ plain.value # text

(***************************************************************************)
(* The column order of a key.  key.upper() is longer than the key when a   *)
(* character of the key has an uppercase form of two characters; order has *)
(* len(key) entries, and order[old_pos] = new_pos raises IndexError for    *)
(* the positions from len(key) on.                                         *)
(***************************************************************************)
\* len(key.upper())
key_upper_len(key) ==
  IF key = <<>> THEN 0
  ELSE LET lens == [i \in 1..Len(key) |-> upper_len(key[i])]
           sum[k \in 0..Len(key)] == IF k = 0 THEN 0 ELSE sum[k - 1] + lens[k]
       IN  sum[Len(key)]

key_order_call(key) ==
  IF key_upper_len(key) > Len(key) THEN Raised("IndexError")
  ELSE Returned(columnar_get_key_order(key))

key_order_reverse_call(key) ==
  IF key_upper_len(key) > Len(key) THEN Raised("IndexError")
  ELSE Returned(columnar_get_key_order_reverse(key))

\* 'b', 'A', 'a', '2', U+00DF
KeyOrderChars == ColumnarKeyChars \cup {ord_eszett}

InitKeyOrder ==
  /\ pc = "ready"
  /\ text = <<>>
  /\ arg \in [key : SeqsUpTo(KeyOrderChars, MaxColumnarKeyLen)]
  /\ cipher = Null /\ plain = Null /\ ret = Null

ColumnarGetKeyOrder ==
  /\ pc = "ready"
  /\ ret' = key_order_call(arg.key)
  /\ pc' = "order"
  /\ UNCHANGED <<text, arg, cipher, plain>>

ColumnarGetKeyOrderReverse ==
  /\ pc = "order"
  /\ plain' = key_order_reverse_call(arg.key)
  /\ pc' = "reverse"
  /\ UNCHANGED <<text, arg, cipher, ret>>

NextKeyOrder == ColumnarGetKeyOrder \/ ColumnarGetKeyOrderReverse

SpecKeyOrder == InitKeyOrder /\ [][NextKeyOrder]_vars

\* A character without its case: a-z as A-Z.
CaseFolded(ch) == IF 97 <= ch /\ ch <= 122 THEN ch - 32 ELSE ch

\* C25: for every key, columnar_get_key_order(key) is a permutation of
\* 0..len(key)-1 that ranks the positions of the key by their letter, case
\* ignored, equal letters by their position from the left, and
\* columnar_get_key_order_reverse(key) is the inverse permutation.
C25_KeyOrderPermutation ==
  LET n == Len(arg.key)
      Before(i, j) ==
        \/ CaseFolded(arg.key[i]) < CaseFolded(arg.key[j])
        \/ CaseFolded(arg.key[i]) = CaseFolded(arg.key[j]) /\ i < j
  IN  /\ pc \in {"order", "reverse"} =>
           /\ ret.raised = "none"
           /\ Len(ret.value) = n
           /\ {ret.value[i] : i \in 1..n} = 0..(n - 1)
           /\ \A i, j \in 1..n : ret.value[i] < ret.value[j] <=> Before(i, j)
      /\ pc = "reverse" =>
           /\ plain.raised = "none"
           /\ Len(plain.value) = n
           /\ \A i \in 1..n : plain.value[ret.value[i] + 1] = i - 1

(***************************************************************************)
(* Columnar calls with keys that may hold U+00DF: columnar_encrypt and     *)
(* columnar_decrypt call columnar_get_key_order once the key and the       *)
(* letters of the text are known not to be empty.                          *)
(***************************************************************************)
columnar_encrypt_call(t, key) ==
  IF key = <<>> \/ letters_only(t) = <<>> THEN Returned(t)
  ELSE IF key_order_call(key).raised # "none" THEN Raised("IndexError")
  ELSE Returned(columnar_encrypt(t, key))

columnar_decrypt_call(c, key) ==
  IF key = <<>> \/ letters_only(c) = <<>> THEN Returned(c)
  ELSE IF key_order_call(key).raised # "none" THEN Raised("IndexError")
  ELSE Returned(columnar_decrypt(c, key))

\* The locals of columnar_decrypt before its return statement; early: it
\* returned the ciphertext at one of the two tests.
columnar_decrypt_locals(c, key) ==
  LET cipher_clean == letters_only(c)
      none == [raised |-> "none", early |-> TRUE, chars_per_col |-> <<>>,
               grid |-> <<>>, result |-> <<>>]
  IN  IF key = <<>> \/ cipher_clean = <<>> THEN none
      ELSE IF key_order_call(key).raised # "none"
        THEN [none EXCEPT !.raised = "IndexError", !.early = FALSE]
      ELSE [raised |-> "none", early |-> FALSE,
            chars_per_col |-> columnar_decrypt_counts(cipher_clean, Len(key)),
            grid |-> columnar_decrypt_grid(cipher_clean, key),
            result |-> columnar_decrypt_read(cipher_clean, key)]

\* 'b', 'a', U+00DF
ColumnarCallKeyChars == {98, 97, ord_eszett}

InitColumnarCall ==
  /\ pc = "ready"
  /\ text \in SeqsUpTo(ColumnarChars, MaxColumnarLen)
  /\ arg \in [key : SeqsUpTo(ColumnarCallKeyChars, MaxColumnarKeyLen)]
  /\ cipher = Null /\ plain = Null /\ ret = Null

ColumnarEncryptCall ==
  /\ pc = "ready"
  /\ cipher' = columnar_encrypt_call(text, arg.key)
  /\ pc' = "encrypted"
  /\ UNCHANGED <<text, arg, plain, ret>>

\* columnar_decrypt(columnar_encrypt(text, key), key): an exception of the
\* inner call is the outcome of the expression
ColumnarDecryptCall ==
  /\ pc = "encrypted"
  /\ plain' = IF cipher.raised # "none" THEN cipher
              ELSE columnar_decrypt_call(cipher.value, arg.key)
  /\ pc' = "decrypted"
  /\ UNCHANGED <<text, arg, cipher, ret>>

\* columnar_decrypt called with the text as the ciphertext
ColumnarDecryptText ==
  /\ pc = "ready"
  /\ ret' = columnar_decrypt_locals(text, arg.key)
  /\ pc' = "distributed"
  /\ UNCHANGED <<text, arg, cipher, plain>>

NextColumnarCall ==
  \/ ColumnarEncryptCall
  \/ ColumnarDecryptCall
  \/ ColumnarDecryptText

SpecColumnarCall == InitColumnarCall /\ [][NextColumnarCall]_vars

\* C26: for every non-empty key, keys with repeated letters included, and
\* every text, columnar_decrypt(columnar_encrypt(text, key), key) is the
\* letters of the text without its trailing 'X' characters.
C26_ColumnarRoundTrip ==
  (pc = "decrypted" /\ arg.key # <<>>) =>
    plain = Returned(rstrip(letters_only(text), pad_X))

C27_WitnessRepeatedKey ==
  /\ pc = "distributed"
  /\ arg.key = <<97, 98, 97>> /\ text = <<97, 98, 98, 97>>
  /\ ret.raised = "none"
  /\ ret.result # text

(***************************************************************************)
(* Rail Fence, one loop iteration at a time.  ret holds the locals of the  *)
(* running loop: i (the iteration, from 1), row, direction, and lines      *)
(* (rail_fence_encrypt), counts (first loop of rail_fence_decrypt) or      *)
(* rails_arr and result (its last loop).  pc = "raised": lines[row],       *)
(* counts[row] or rails_arr[row].pop(0) raised IndexError.                 *)
(***************************************************************************)
InitZigzag ==
  /\ pc = "ready"
  /\ text \in SeqsUpTo(RailChars, MaxRailLen)
  /\ arg \in [rails : 2..MaxRails]
  /\ cipher = Null /\ plain = Null /\ ret = Null

Rails == 0..(arg.rails - 1)

\* rail_fence_encrypt up to its loop
EncryptBegin ==
  /\ pc = "ready"
  /\ IF Len(text) = 0
       THEN pc' = "encrypted" /\ cipher' = text /\ ret' = ret
       ELSE /\ pc' = "placing"
            /\ ret' = [i |-> 1, row |-> 0, direction |-> 1,
                       lines |-> [r \in Rails |-> <<>>]]
            /\ cipher' = cipher
  /\ UNCHANGED <<text, arg, plain>>

\* lines[row].append(ch); turn; row += direction
EncryptPlace ==
  /\ pc = "placing" /\ ret.i <= Len(text)
  /\ IF ret.row \notin Rails THEN pc' = "raised" /\ ret' = ret
     ELSE LET st == zigzag_step(ret.row, ret.direction, arg.rails)
          IN  /\ pc' = "placing"
              /\ ret' = [i |-> ret.i + 1, row |-> st.row,
                         direction |-> st.direction,
                         lines |-> [ret.lines EXCEPT
                                      ![ret.row] = Append(@, text[ret.i])]]
  /\ UNCHANGED <<text, arg, cipher, plain>>

EncryptReturn ==
  /\ pc = "placing" /\ ret.i > Len(text)
  /\ cipher' = join_lines(ret.lines, 0, arg.rails)
  /\ pc' = "encrypted"
  /\ UNCHANGED <<text, arg, plain, ret>>

\* rail_fence_decrypt up to its first loop
DecryptBegin ==
  /\ pc = "encrypted"
  /\ IF Len(cipher) = 0
       THEN pc' = "decrypted" /\ plain' = cipher /\ ret' = ret
       ELSE /\ pc' = "counting"
            /\ ret' = [i |-> 1, row |-> 0, direction |-> 1,
                       counts |-> [r \in Rails |-> 0]]
            /\ plain' = plain
  /\ UNCHANGED <<text, arg, cipher>>

\* counts[row] += 1; turn; row += direction
DecryptCount ==
  /\ pc = "counting" /\ ret.i <= Len(cipher)
  /\ IF ret.row \notin Rails THEN pc' = "raised" /\ ret' = ret
     ELSE LET st == zigzag_step(ret.row, ret.direction, arg.rails)
          IN  /\ pc' = "counting"
              /\ ret' = [i |-> ret.i + 1, row |-> st.row,
                         direction |-> st.direction,
                         counts |-> [ret.counts EXCEPT ![ret.row] = @ + 1]]
  /\ UNCHANGED <<text, arg, cipher, plain>>

\* the slices of the ciphertext, and the start of the last loop
DecryptSlice ==
  /\ pc = "counting" /\ ret.i > Len(cipher)
  /\ pc' = "taking"
  /\ ret' = [i |-> 1, row |-> 0, direction |-> 1,
             rails_arr |-> rail_fence_slices(cipher, ret.counts, arg.rails, 0, 0,
                                             [r \in Rails |-> <<>>]),
             result |-> <<>>]
  /\ UNCHANGED <<text, arg, cipher, plain>>

\* result.append(rails_arr[row].pop(0)); turn; row += direction
DecryptTake ==
  /\ pc = "taking" /\ ret.i <= Len(cipher)
  /\ IF ret.row \notin Rails \/ ret.rails_arr[ret.row] = <<>>
       THEN pc' = "raised" /\ ret' = ret
     ELSE LET st == zigzag_step(ret.row, ret.direction, arg.rails)
          IN  /\ pc' = "taking"
              /\ ret' = [i |-> ret.i + 1, row |-> st.row,
                         direction |-> st.direction,
                         rails_arr |-> [ret.rails_arr EXCEPT ![ret.row] = Tail(@)],
                         result |-> Append(ret.result,
                                           Head(ret.rails_arr[ret.row]))]
  /\ UNCHANGED <<text, arg, cipher, plain>>

DecryptReturn ==
  /\ pc = "taking" /\ ret.i > Len(cipher)
  /\ plain' = ret.result
  /\ pc' = "decrypted"
  /\ UNCHANGED <<text, arg, cipher, ret>>

NextZigzag ==
  \/ EncryptBegin
  \/ EncryptPlace
  \/ EncryptReturn
  \/ DecryptBegin
  \/ DecryptCount
  \/ DecryptSlice
  \/ DecryptTake
  \/ DecryptReturn

SpecZigzag == InitZigzag /\ [][NextZigzag]_vars

InLoop == pc \in {"placing", "counting", "taking"}

\* The row is a rail whenever an iteration is about to place, count or take.
RowOnRail ==
  /\ pc # "raised"
  /\ (InLoop /\ ret.i <= Len(text)) => ret.row \in Rails
  /\ (pc = "taking" /\ ret.i <= Len(text)) => ret.rails_arr[ret.row] # <<>>
  /\ (pc = "decrypted" /\ Len(text) > 0) =>
       \A r \in Rails : ret.rails_arr[r] = <<>>

\* One iteration: the direction is down after row 0, up after row rails-1,
\* and unchanged after every other row.
TurnsAtEnds ==
  (InLoop /\ pc' = pc) =>
    ret'.direction = (IF ret.row = 0 THEN 1
                      ELSE IF ret.row = arg.rails - 1 THEN -1
                      ELSE ret.direction)

\* C28: with rails >= 2, in rail_fence_encrypt and in both loops of
\* rail_fence_decrypt the row is within 0..rails-1 whenever a character is
\* placed, counted or taken, the direction changes at row 0 (to down) and at
\* row rails-1 (to up) only, no buffer of rail_fence_decrypt is popped while
\* empty, and all its buffers are empty at the end.
C28_ZigzagWithinRails == []RowOnRail /\ [][TurnsAtEnds]_vars

\* Five characters over three rails, decrypted: rows 0, 1, 2, 1, 0, and the
\* row after the last one would be 1 again.
C28_Witness ==
  /\ pc = "decrypted"
  /\ arg.rails = 3 /\ Len(text) = 5
  /\ ret.i = 6 /\ ret.row = 1 /\ ret.direction = 1
  /\ \A r \in Rails : ret.rails_arr[r] = <<>>
  /\ plain = text

\* C29: hill_decrypt called with size 3 raises the key error (ValueError) for
\* every key and every ciphertext, the empty one included, and so for every
\* ciphertext that hill_encrypt produced with size 3.
C29_HillSizeThreeDecrypt ==
  (pc = "called" /\ arg.algorithm = "hill" /\ arg.size = 3) =>
    /\ arg.mode = "decrypt" => ret = Raised("ValueError")
    /\ arg.mode = "encrypt" =>
         /\ ret.raised = "none"
         /\ Result(hill_decrypt(ret.value, arg.key, 3)) = Raised("ValueError")

\* "ABC" under the key "GYBNQKURP", whose 3 x 3 matrix is invertible mod 26.
C29_Witness ==
  /\ pc = "called"
  /\ arg.algorithm = "hill" /\ arg.mode = "decrypt" /\ arg.size = 3
  /\ arg.key = key_GYBNQKURP /\ KeyInvertible(arg.key, 3)
  /\ text = text_ABC
  /\ ret.raised = "ValueError"

\* The same key encrypting: a ciphertext exists, "ABC" -> three other letters.
C29_WitnessEncrypt ==
  /\ pc = "called"
  /\ arg.algorithm = "hill" /\ arg.mode = "encrypt" /\ arg.size = 3
  /\ arg.key = key_GYBNQKURP
  /\ text = text_ABC
  /\ ret.raised = "none" /\ Len(ret.value) = 3 /\ ret.value # text

\* C30: for every non-empty key and every text,
\* playfair_decrypt(playfair_encrypt(text, key), key) is the digraphs of
\* playfair_prepare_text(text) written one after the other, and the
\* ciphertext has an even length and no 'J'.
C30_PlayfairRoundTrip ==
  arg.key # <<>> =>
    /\ pc \in {"encrypted", "decrypted"} =>
         /\ Len(cipher) % 2 = 0
         /\ \A i \in 1..Len(cipher) : cipher[i] # ord_J
    /\ pc = "decrypted" =>
         plain = str_join(<<>>, str_split(playfair_prepare_text(text)))

====
